---- MODULE Spec2Model ----
(***************************************************************************)
(* A model of the whois2 query pipeline: input validation, the retry /     *)
(* rate-limit / RDAP-fallback loop of queryWhois, and the record that      *)
(* whois() builds from the outcome.                                        *)
(*                                                                         *)
(* Two variants of the orchestrator live in the sources and both are       *)
(* modelled: the RDAP-aware one ("aware") and the earlier RDAP-unaware     *)
(* one ("unaware"), which follows registrar referrals instead.             *)
(*                                                                         *)
(* Conventions.  A JavaScript value that may be null is a sequence of      *)
(* length at most one: Null is <<>>, Some(v) is <<v>>.  A string the       *)
(* code takes apart character by character (the domain) is a sequence of   *)
(* one-character strings; a WHOIS response text is a sequence of lines,    *)
(* each line a record naming the phrase it carries.  Messages of errors    *)
(* are sequences of tokens, so that wrapping is concatenation.             *)
(***************************************************************************)
EXTENDS Integers, Sequences, FiniteSets, TLC

(***************************************************************************)
(* Bounds of the model.                                                    *)
(***************************************************************************)
\* largest retryCount option explored
MaxRetryCount == 2
\* largest wait, in seconds, that a rate-limit notice declares
MaxSeconds == 1
\* largest number of lines of a WHOIS response text
MaxLines == 2
MaxReferralLines == 1
MaxChunks == 2
MaxConcurrentLines == 1

\* longest text handed to the extraction functions, in lines
MaxParseLines == 3

\* most calls of the extraction functions a caller makes in a row
MaxCalls == 2

\* the most domains the batch script is given
MaxDomains == 2

(***************************************************************************)
(* Nullable values.                                                        *)
(***************************************************************************)
Null == <<>>

Some(v) == <<v>>

IsNull(x) == x = <<>>

(***************************************************************************)
(* Program constants.                                                      *)
(***************************************************************************)
DefaultTimeout == 5000

DefaultRetryCount == 3

DefaultRetryDelay == 1000

WhoisPort == 43

getWhoisServer == <<"whois.verisign-grs.com">>

(***************************************************************************)
(* Domain arguments.  A JavaScript argument is either not a string         *)
(* (undefined, null, a number) or a string, here a sequence of characters. *)
(***************************************************************************)
Str(s) == [t |-> "string", v |-> s]

NonStrings ==
  { [t |-> "undefined", v |-> <<>>],
    [t |-> "null", v |-> <<>>],
    [t |-> "number", v |-> <<"4", "2">>] }

ValidDomainStrings ==
  { <<"a", ".", "c", "o", "m">>,
    <<"a", ".", "C", "o", "M">> }

InvalidDomainStrings ==
  { <<>>,
    <<"c", "o", "m">>,
    <<"a", ".", "o", "r", "g">>,
    <<"a", ".", "c", "o", "m", ".">>,
    <<"a", ".", "c", "o">>,
    <<"a", ".">> }

Domains ==
  NonStrings \cup { Str(s) : s \in ValidDomainStrings \cup InvalidDomainStrings }

PlainDomain == Str(<<"a", ".", "c", "o", "m">>)

\* String.prototype.toLowerCase on one character of the alphabet used here
LowerChar(c) ==
  CASE c = "C" -> "c"
    [] c = "O" -> "o"
    [] c = "M" -> "m"
    [] OTHER -> c

toLowerCase(s) == [i \in 1..Len(s) |-> LowerChar(s[i])]

\* String.prototype.split(sep): the pieces between the separators; a string
\* without separator (the empty string included) gives one piece
RECURSIVE SplitFrom(_, _, _)
SplitFrom(s, sep, cur) ==
  IF s = <<>> THEN <<cur>>
  ELSE IF Head(s) = sep THEN <<cur>> \o SplitFrom(Tail(s), sep, <<>>)
  ELSE SplitFrom(Tail(s), sep, Append(cur, Head(s)))

split(s, sep) == SplitFrom(s, sep, <<>>)

\* domain.split('.').pop()
pop(parts) == parts[Len(parts)]

(***************************************************************************)
(* WHOIS response texts.  A text is a sequence of lines; a line carries    *)
(* one phrase: a rate-limit notice (one of three wordings, with its        *)
(* seconds), a deprecation notice (one of three wordings) or a             *)
(* "Label: value" field.  The value of a field is a sequence of tokens.    *)
(***************************************************************************)
RateWordings ==
  << "Rate limit exceeded. Try again after: <n>s",
     "Too many requests. Please wait <n> seconds",
     "Query rate limit exceeded. Wait for <n> seconds" >>

DeprecationWordings ==
  << "This WHOIS server is being retired. Please use our RDAP service instead",
     "RDAP has replaced WHOIS",
     "WHOIS service is deprecated. Please use RDAP instead" >>

RateLine(w, n) == [kind |-> "rate", label |-> RateWordings[w], n |-> n, val |-> <<>>]

DepLine(w) == [kind |-> "dep", label |-> DeprecationWordings[w], n |-> 0, val |-> <<>>]

FieldLine(label, val) == [kind |-> "field", label |-> label, n |-> 0, val |-> val]

ReferralHost == <<"whois.registrar.example">>

ReferralUrl == <<"http", "://", "whois.registrar.example">>

\* referral fields that name no server to re-query: the authoritative server
\* itself, and a URL
IdleReferralLines ==
  { FieldLine("Registrar WHOIS Server", getWhoisServer),
    FieldLine("Registrar WHOIS Server", ReferralUrl) }

\* the lines a response is made of: a rate-limit notice for each number of
\* seconds (the wording changes with the number), a deprecation notice, a
\* domain-name field and a referral field; the variant that reads the value
\* of the referral field is also answered with the referral fields it must
\* not follow
Lines(v) ==
  { RateLine(1 + (n % 3), n) : n \in 0..MaxSeconds }
    \cup { DepLine(2),
           FieldLine("Domain Name", <<"EXAMPLE.COM">>),
           FieldLine("Registrar WHOIS Server", ReferralHost) }
    \cup (IF v = "unaware" THEN IdleReferralLines ELSE {})

Texts(v) == UNION { [1..n -> Lines(v)] : n \in 0..MaxLines }

\* the texts a referral server answers with
ReferralTexts(v) == UNION { [1..n -> Lines(v)] : n \in 0..MaxReferralLines }

\* the first of a set of line indices, 0 when the set is empty: where a
\* pattern without the g flag matches
FirstIndex(indices) ==
  IF indices = {} THEN 0
  ELSE CHOOSE i \in indices : \A j \in indices : i <= j

\* String.prototype.match with one of the three rate-limit patterns: the
\* seconds of the first notice in that wording, Null when there is none
MatchRate(data, w) ==
  LET i == FirstIndex({j \in 1..Len(data) :
                          data[j].kind = "rate" /\ data[j].label = RateWordings[w]})
  IN  IF i = 0 THEN Null ELSE Some(data[i].n)

extractRateLimit(data) ==
  IF data = <<>> THEN Null
  ELSE LET rateLimitMatch ==
             IF ~IsNull(MatchRate(data, 1)) THEN MatchRate(data, 1)
             ELSE IF ~IsNull(MatchRate(data, 2)) THEN MatchRate(data, 2)
             ELSE MatchRate(data, 3)
       IN  rateLimitMatch

isRdapRecommended(data) ==
  IF data = <<>> THEN FALSE
  ELSE \E i \in 1..Len(data) :
         /\ data[i].kind = "dep"
         /\ \E w \in 1..3 : data[i].label = DeprecationWordings[w]

\* truthiness of a value that is a number or null: null and 0 are falsy
TruthyNum(x) == ~IsNull(x) /\ x[1] # 0

\* rateLimit || 0
OrZero(x) == IF TruthyNum(x) THEN x[1] ELSE 0

\* whoisData.match(/Registrar WHOIS Server:\s+([^\s]+)/i): the host of the
\* first such field, Null when there is none
referralMatch(data) ==
  LET i == FirstIndex({j \in 1..Len(data) :
                          data[j].kind = "field" /\ data[j].label = "Registrar WHOIS Server"})
  IN  IF i = 0 \/ data[i].val = <<>> THEN Null ELSE Some(data[i].val)

startsWithHttp(s) == Len(s) > 0 /\ s[1] = "http"

\* referralServer without the test that tells a URL from a host
referralServer_NoUrlTest(data, whoisServer) ==
  LET m == referralMatch(data)
  IN  IF ~IsNull(m) /\ m[1] # whoisServer THEN m ELSE Null

\* the referral server the RDAP-unaware variant re-queries, Null when the
\* response names none that qualifies
referralServer(data, whoisServer) ==
  LET m == referralMatch(data)
  IN  IF ~IsNull(m) /\ m[1] # whoisServer /\ ~startsWithHttp(m[1]) THEN m ELSE Null

(***************************************************************************)
(* Date strings are sequences of characters.                               *)
(***************************************************************************)
Digits == {"0", "1", "2", "3", "4", "5", "6", "7", "8", "9"}

\* /^\d{4}-\d{2}-\d{2}T\d{2}:\d{2}:\d{2}/.test(dateStr)
IsIsoInstant(s) ==
  /\ Len(s) >= 19
  /\ \A i \in {1, 2, 3, 4, 6, 7, 9, 10, 12, 13, 15, 16, 18, 19} : s[i] \in Digits
  /\ s[5] = "-" /\ s[8] = "-" /\ s[11] = "T" /\ s[14] = ":" /\ s[17] = ":"

\* the strings of the shape YYYY-MM-DD, the date-only form that new Date()
\* reads as midnight UTC
IsDateOnly(s) ==
  /\ Len(s) = 10
  /\ \A i \in {1, 2, 3, 4, 6, 7, 9, 10} : s[i] \in Digits
  /\ s[5] = "-" /\ s[8] = "-"
  /\ <<s[6], s[7]>> \in {<<"0", d>> : d \in Digits \ {"0"}} \cup {<<"1", "0">>, <<"1", "1">>, <<"1", "2">>}
  /\ <<s[9], s[10]>> \in ({<<a, b>> : a \in {"0", "1", "2"}, b \in Digits} \ {<<"0", "0">>})

\* normalizeDate of the module that whois() imports: an ISO instant is kept,
\* a string that new Date() accepts becomes date.toISOString(), any other
\* string is returned as it came.  Of the strings new Date() accepts, the
\* date-only form is the one modelled.
normalizeDate(dateStr) ==
  IF IsIsoInstant(dateStr) THEN dateStr
  ELSE IF IsDateOnly(dateStr)
       THEN dateStr \o <<"T", "0", "0", ":", "0", "0", ":", "0", "0", ".", "0", "0", "0", "Z">>
       ELSE dateStr

(***************************************************************************)
(* The text extraction that parseWhois delegates to.                       *)
(***************************************************************************)
\* the labels each pattern of the table accepts before the colon
WHOIS_PATTERNS ==
  [ domain_name |-> {"Domain Name"},
    registrar |-> {"Registrar"},
    creation_date |-> {"Creation Date"},
    expiration_date |-> {"Registry Expiry Date", "Registrar Registration Expiration Date"},
    updated_date |-> {"Updated Date"},
    registrar_whois_server |-> {"Registrar WHOIS Server"},
    name_servers |-> {"Name Server"},
    status |-> {"Domain Status"},
    registrar_url |-> {"Registrar URL"},
    registrar_id |-> {"Registrar IANA ID"} ]

CoreFields == {"domain_name", "registrar", "creation_date", "expiration_date", "updated_date"}

DateFields == {"creation_date", "expiration_date", "updated_date"}

\* MatchField taking the last line that carries one of the field's labels
MatchField_LastLine(whoisData, field) ==
  LET indices == {j \in 1..Len(whoisData) :
                    /\ whoisData[j].kind = "field"
                    /\ whoisData[j].label \in WHOIS_PATTERNS[field]}
      i == IF indices = {} THEN 0
           ELSE CHOOSE k \in indices : \A j \in indices : j <= k
  IN  IF i = 0 \/ whoisData[i].val = <<>> THEN Null
      ELSE IF field = "domain_name" THEN Some(<<whoisData[i].val[1]>>)
      ELSE Some(whoisData[i].val)

\* whoisData.match(pattern)[1] for the pattern of a field: the captured
\* value of the first line that carries one of the field's labels, Null
\* when no line does or the capture is empty
MatchField(whoisData, field) ==
  LET i == FirstIndex({j \in 1..Len(whoisData) :
                          /\ whoisData[j].kind = "field"
                          /\ whoisData[j].label \in WHOIS_PATTERNS[field]})
  IN  IF i = 0 \/ whoisData[i].val = <<>> THEN Null
      ELSE IF field = "domain_name" THEN Some(<<whoisData[i].val[1]>>)
      ELSE Some(whoisData[i].val)

\* an object without keys
EmptyObject == [k \in {} |-> Null]

\* extractWhoisData without the early return for an empty text
extractWhoisData_NoEmptyCase(whoisData) ==
  [ field \in CoreFields |->
      LET match == MatchField(whoisData, field)
      IN  IF IsNull(match) THEN Null
          ELSE IF field \in DateFields THEN Some(normalizeDate(match[1]))
          ELSE match ]

extractWhoisData(whoisData) ==
  IF whoisData = <<>> THEN EmptyObject
  ELSE [ field \in CoreFields |->
           LET match == MatchField(whoisData, field)
           IN  IF IsNull(match) THEN Null
               ELSE IF field \in DateFields THEN Some(normalizeDate(match[1]))
               ELSE match ]

parseWhois(whoisData) == extractWhoisData(whoisData)

(***************************************************************************)
(* The texts handed to the extraction module on its own.  A text is a      *)
(* sequence of lines as above.  The lines of the texts explored here are   *)
(* "Label: value" fields, a comment line and a blank line.  The labels are *)
(* spelled as the pattern table spells them, and a field whose label is in *)
(* the table carries its value on its own line; a field with another label *)
(* may have no value.  The empty sequence is the empty string.             *)
(***************************************************************************)
Arr(a) == [t |-> "array", v |-> a]

DateOnly == <<"1", "9", "9", "5", "-", "0", "8", "-", "1", "4">>

NoDate == <<"u", "n", "k", "n", "o", "w", "n">>

CommentLine ==
  [kind |-> "comment", label |-> "% Terms of use: see the registry", n |-> 0, val |-> <<>>]

BlankLine == [kind |-> "blank", label |-> "", n |-> 0, val |-> <<>>]

ParseLines ==
  { FieldLine("Domain Name", <<"EXAMPLE.COM">>),
    FieldLine("Domain Name", <<"OTHER.COM", "(reserved)">>),
    FieldLine("Registrar", <<"RESERVED-IANA">>),
    FieldLine("Creation Date", DateOnly),
    FieldLine("Registry Expiry Date", NoDate),
    FieldLine("Name Server", <<"A.IANA-SERVERS.NET">>),
    FieldLine("Name Server", <<"B.IANA-SERVERS.NET">>),
    FieldLine("Domain Status", <<"clientDeleteProhibited">>),
    FieldLine("Domain Status", <<"clientHold">>),
    FieldLine("Registrar URL", <<"http", "://", "res-dom.iana.org">>),
    FieldLine("Registrar URL", <<"http", "://", "www.iana.org">>),
    FieldLine("DNSSEC", <<"signedDelegation">>),
    FieldLine("Registrar Abuse Contact Email", <<>>),
    CommentLine,
    BlankLine }

ParseTexts == UNION { [1..n -> ParseLines] : n \in 0..MaxParseLines }

\* [...whoisData.matchAll(regex)].map(match => match[1].trim()) for the
\* pattern of a field: the captured values of the lines that carry one of
\* the field's labels, in the order of the lines
RECURSIVE matchAll(_, _)
matchAll(whoisData, field) ==
  IF whoisData = <<>> THEN <<>>
  ELSE LET line == Head(whoisData)
           rest == matchAll(Tail(whoisData), field)
       IN  IF /\ line.kind = "field"
              /\ line.label \in WHOIS_PATTERNS[field]
              /\ line.val # <<>>
           THEN << IF field = "domain_name" THEN <<line.val[1]>> ELSE line.val >> \o rest
           ELSE rest

\* NamedValue collecting every match for the name servers only
NamedValue_OnlyNameServers(whoisData, field) ==
  LET matches == matchAll(whoisData, field)
  IN  IF Len(matches) > 1 /\ field = "name_servers" THEN Arr(matches)
      ELSE Str(IF field \in DateFields THEN normalizeDate(matches[1]) ELSE matches[1])

\* result[field] after the loop over the pattern table, for a field whose
\* pattern matches: field.includes('date') holds of the three date fields
NamedValue(whoisData, field) ==
  LET matches == matchAll(whoisData, field)
  IN  IF Len(matches) > 1 /\ field = "name_servers" THEN Arr(matches)
      ELSE IF Len(matches) > 1 /\ field = "status" THEN Arr(matches)
      ELSE Str(IF field \in DateFields THEN normalizeDate(matches[1]) ELSE matches[1])

\* key.trim().toLowerCase().replace(/\s+/g, '_') for the labels of the
\* lines explored
cleanKey(label) ==
  CASE label = "Domain Name" -> "domain_name"
    [] label = "Registrar" -> "registrar"
    [] label = "Creation Date" -> "creation_date"
    [] label = "Registry Expiry Date" -> "registry_expiry_date"
    [] label = "Name Server" -> "name_server"
    [] label = "Domain Status" -> "domain_status"
    [] label = "Registrar URL" -> "registrar_url"
    [] label = "DNSSEC" -> "dnssec"
    [] label = "Registrar Abuse Contact Email" -> "registrar_abuse_contact_email"

\* Object.keys(WHOIS_PATTERNS).map(k => k.toLowerCase())
knownKeys == DOMAIN WHOIS_PATTERNS

\* cleanKey.includes('date') || cleanKey.includes('expiry') ||
\* cleanKey.includes('created'), for the keys cleanKey yields
IsDateKey(key) == key \in {"creation_date", "registry_expiry_date"}

\* the lines from which the line scan assigns result[cleanKey]: not a
\* comment, not blank, of the shape "key: value" with a key that is not a
\* field name of the table and a value that is not empty
ScanLines(whoisData) ==
  { i \in 1..Len(whoisData) :
      /\ whoisData[i].kind = "field"
      /\ cleanKey(whoisData[i].label) \notin knownKeys
      /\ whoisData[i].val # <<>> }

\* result[key] after the line scan: the assignment of the last line that
\* yields the key stands
ScanValue(whoisData, key) ==
  LET indices == {i \in ScanLines(whoisData) : cleanKey(whoisData[i].label) = key}
      last == CHOOSE i \in indices : \A j \in indices : j <= i
      value == whoisData[last].val
  IN  Str(IF IsDateKey(key) THEN normalizeDate(value) ELSE value)

extractAllFields(whoisData) ==
  IF whoisData = <<>> THEN EmptyObject
  ELSE LET named == {field \in DOMAIN WHOIS_PATTERNS : matchAll(whoisData, field) # <<>>}
           scanned == {cleanKey(whoisData[i].label) : i \in ScanLines(whoisData)}
       IN  [ key \in named \cup scanned |->
               IF key \in scanned THEN ScanValue(whoisData, key)
               ELSE NamedValue(whoisData, key) ]

\* the RegExp objects of the table as they are created: the flag i, and the
\* position lastIndex from which a global or sticky search would start
PatternTable ==
  [ field \in DOMAIN WHOIS_PATTERNS |->
      [labels |-> WHOIS_PATTERNS[field], flags |-> {"i"}, lastIndex |-> 0] ]

\* the texts a caller passes in a row of calls
CallTexts ==
  { <<>>,
    << BlankLine >>,
    << FieldLine("Name Server", <<"A.IANA-SERVERS.NET">>) >>,
    << FieldLine("Name Server", <<"B.IANA-SERVERS.NET">>),
       FieldLine("Name Server", <<"A.IANA-SERVERS.NET">>) >>,
    << FieldLine("Domain Name", <<"EXAMPLE.COM">>),
       FieldLine("Creation Date", DateOnly),
       FieldLine("DNSSEC", <<"signedDelegation">>) >> }

(***************************************************************************)
(* normalizeDate of dist/cjs/whois-regex.js, with the Date of the engine   *)
(* the package runs on (Node.js).  The time zone of the process is an      *)
(* input: a string that is not in the ISO form is read as local time.      *)
(***************************************************************************)
Zones == {"UTC", "west", "east"}

TimezoneTokens == {"UTC", "GMT", "EST", "EDT", "CST", "CDT", "MST", "MDT", "PST", "PDT"}

DigitValue(c) ==
  CASE c = "0" -> 0 [] c = "1" -> 1 [] c = "2" -> 2 [] c = "3" -> 3 [] c = "4" -> 4
    [] c = "5" -> 5 [] c = "6" -> 6 [] c = "7" -> 7 [] c = "8" -> 8 [] c = "9" -> 9

DigitChar(n) == CHOOSE c \in Digits : DigitValue(c) = n

\* parseInt(digits, 10) for a string of digits
RECURSIVE parseInt(_)
parseInt(digits) ==
  IF digits = <<>> THEN 0
  ELSE 10 * parseInt(SubSeq(digits, 1, Len(digits) - 1)) + DigitValue(digits[Len(digits)])

\* a number below 100 written with two digits
TwoDigits(n) == << DigitChar(n \div 10), DigitChar(n % 10) >>

\* dateStr.replace(/\s+(?:UTC|GMT|...|[+-]\d{4})/i, ''): the leftmost run of
\* blanks that a time zone token follows is removed together with the
\* token; no string explored holds a numeric offset
stripTimezone(dateStr) ==
  LET starts == { i \in 1..Len(dateStr) :
                    \E j \in i..Len(dateStr) - 1 :
                      /\ \A k \in i..j : dateStr[k] = " "
                      /\ dateStr[j + 1] \in TimezoneTokens }
  IN  IF starts = {} THEN dateStr
      ELSE LET i == CHOOSE a \in starts : \A b \in starts : a <= b
               j == CHOOSE b \in i..Len(dateStr) - 1 :
                      /\ \A k \in i..b : dateStr[k] = " "
                      /\ dateStr[b + 1] \in TimezoneTokens
           IN  SubSeq(dateStr, 1, i - 1) \o SubSeq(dateStr, j + 2, Len(dateStr))

\* the structural patterns in the order of the list: the widths of the three
\* groups of digits and the separator
formats ==
  << [widths |-> <<4, 2, 2>>, sep |-> "-"],
     [widths |-> <<2, 2, 4>>, sep |-> "/"],
     [widths |-> <<2, 2, 4>>, sep |-> "/"],
     [widths |-> <<2, 2, 4>>, sep |-> "."],
     [widths |-> <<4, 2, 2>>, sep |-> "."],
     [widths |-> <<2, 2, 4>>, sep |-> "-"],
     [widths |-> <<4, 2, 2>>, sep |-> "/"] >>

\* dateStr.match(format): the three groups, Null when the string does not
\* begin as the pattern says
MatchFormat(dateStr, format) ==
  LET w == format.widths
      a == w[1] + 1
      b == w[1] + w[2] + 2
      n == w[1] + w[2] + w[3] + 2
  IN  IF /\ Len(dateStr) >= n
         /\ \A i \in (1..n) \ {a, b} : dateStr[i] \in Digits
         /\ dateStr[a] = format.sep
         /\ dateStr[b] = format.sep
      THEN Some(<< SubSeq(dateStr, 1, a - 1), SubSeq(dateStr, a + 1, b - 1),
                   SubSeq(dateStr, b + 1, n) >>)
      ELSE Null

\* a string of three groups of digits with one separator, Null for any other
\* string: the shape the date parser of the engine reads when the string is
\* not in the ISO form
ThreeNumbers(s) ==
  LET seps == {i \in 1..Len(s) : s[i] \in {"/", ".", "-"}}
  IN  IF /\ Cardinality(seps) = 2
         /\ \A i \in (1..Len(s)) \ seps : s[i] \in Digits
         /\ 1 \notin seps /\ Len(s) \notin seps
         /\ \A i \in seps : i + 1 \notin seps
      THEN LET a == CHOOSE i \in seps : \A j \in seps : i <= j
               b == CHOOSE i \in seps : \A j \in seps : j <= i
           IN  Some(<< SubSeq(s, 1, a - 1), SubSeq(s, a + 1, b - 1),
                       SubSeq(s, b + 1, Len(s)) >>)
      ELSE Null

\* new Date(s): Null for an invalid date.  The ISO form YYYY-MM-DD is
\* midnight UTC.  Of three numbers the engine takes the first as the year
\* when it cannot be a day, else as the month, and wants a month of 1..12
\* and a day of 1..31; the date is midnight local time.  A string without
\* a number is invalid.
NewDate(s) ==
  IF IsDateOnly(s)
  THEN Some([year |-> SubSeq(s, 1, 4), month |-> SubSeq(s, 6, 7), day |-> SubSeq(s, 9, 10),
             local |-> FALSE])
  ELSE LET n == ThreeNumbers(s)
       IN  IF IsNull(n) THEN Null
           ELSE LET ymd == parseInt(n[1][1]) \notin 1..31
                    year == IF ymd THEN n[1][1] ELSE n[1][3]
                    month == IF ymd THEN n[1][2] ELSE n[1][1]
                    day == IF ymd THEN n[1][3] ELSE n[1][2]
                IN  IF /\ parseInt(month) \in 1..12 /\ parseInt(day) \in 1..31
                       /\ Len(year) = 4 /\ Len(month) = 2 /\ Len(day) = 2
                    THEN Some([year |-> year, month |-> month, day |-> day, local |-> TRUE])
                    ELSE Null

\* date.toISOString() in a process of the given zone: local midnight is
\* 05:00 UTC west of Greenwich (UTC-5) and 22:00 UTC of the day before east
\* of it (UTC+2); the dates explored are not the first of a month
toISOString(date, zone) ==
  LET utc == CASE ~date.local \/ zone = "UTC" -> [day |-> date.day, hour |-> <<"0", "0">>]
               [] date.local /\ zone = "west" -> [day |-> date.day, hour |-> <<"0", "5">>]
               [] date.local /\ zone = "east" ->
                    [day |-> TwoDigits(parseInt(date.day) - 1), hour |-> <<"2", "2">>]
  IN  date.year \o <<"-">> \o date.month \o <<"-">> \o utc.day \o <<"T">> \o utc.hour
        \o <<":", "0", "0", ":", "0", "0", ".", "0", "0", "0", "Z">>

\* year.length === 2 ? (parseInt(year) < 30 ? '20' + year : '19' + year) : year
fullYear(year) ==
  IF Len(year) = 2
  THEN (IF parseInt(year) < 30 THEN <<"2", "0">> ELSE <<"1", "9">>) \o year
  ELSE year

\* the loop over the formats from the k-th on: the first format that matches
\* and yields a valid date decides; Null when none does
RECURSIVE FormatDate(_, _)
FormatDate(dateStr, k) ==
  IF k > Len(formats) THEN Null
  ELSE LET match == MatchFormat(dateStr, formats[k])
       IN  IF IsNull(match) THEN FormatDate(dateStr, k + 1)
           ELSE LET year == match[1][1]
                    month == match[1][2]
                    day == match[1][3]
                    date == NewDate(fullYear(year) \o <<"-">> \o month \o <<"-">> \o day)
                IN  IF IsNull(date) THEN FormatDate(dateStr, k + 1) ELSE date

\* the same loop, read for the values the variable year takes with two
\* digits and the fullYear made of each, in the order of the passes
RECURSIVE Expansions(_, _)
Expansions(dateStr, k) ==
  IF k > Len(formats) THEN <<>>
  ELSE LET match == MatchFormat(dateStr, formats[k])
       IN  IF IsNull(match) THEN Expansions(dateStr, k + 1)
           ELSE LET year == match[1][1]
                    month == match[1][2]
                    day == match[1][3]
                    date == NewDate(fullYear(year) \o <<"-">> \o month \o <<"-">> \o day)
                    here == IF Len(year) = 2
                            THEN << [year |-> year, fullYear |-> fullYear(year)] >>
                            ELSE <<>>
                IN  IF IsNull(date) THEN here \o Expansions(dateStr, k + 1) ELSE here

\* normalizeDate of dist/cjs/whois-regex.js: an ISO instant is returned as
\* it is; else the time zone token is removed from dateStr, the formats are
\* tried, then new Date(dateStr); when nothing parses, dateStr, which by
\* then is the string without the token, is returned
normalizeDateCjs(dateStr, zone) ==
  IF IsIsoInstant(dateStr) THEN dateStr
  ELSE LET stripped == stripTimezone(dateStr)
           byFormat == FormatDate(stripped, 1)
           date == IF IsNull(byFormat) THEN NewDate(stripped) ELSE byFormat
       IN  IF IsNull(date) THEN stripped ELSE toISOString(date[1], zone)

\* the date strings explored: a calendar date written in each of the six
\* layouts, alone or followed by a time zone token, an ISO instant, and
\* strings that hold no date
Years == { <<"1", "9", "9", "5">>, <<"2", "0", "2", "4">> }

Months == { <<"0", "2">>, <<"0", "8">>, <<"1", "2">> }

Days == { <<"0", "5">>, <<"1", "4">>, <<"2", "8">> }

Layouts == {"YYYY-MM-DD", "DD/MM/YYYY", "DD.MM.YYYY", "YYYY.MM.DD", "DD-MM-YYYY", "YYYY/MM/DD"}

Written(layout, y, m, d) ==
  CASE layout = "YYYY-MM-DD" -> y \o <<"-">> \o m \o <<"-">> \o d
    [] layout = "DD/MM/YYYY" -> d \o <<"/">> \o m \o <<"/">> \o y
    [] layout = "DD.MM.YYYY" -> d \o <<".">> \o m \o <<".">> \o y
    [] layout = "YYYY.MM.DD" -> y \o <<".">> \o m \o <<".">> \o d
    [] layout = "DD-MM-YYYY" -> d \o <<"-">> \o m \o <<"-">> \o y
    [] layout = "YYYY/MM/DD" -> y \o <<"/">> \o m \o <<"/">> \o d

StructuralDates == { Written(l, y, m, d) : l \in Layouts, y \in Years, m \in Months, d \in Days }

\* the last day of a year written day first: a first group of 30 or more
YearEnds ==
  { Written(l, y, <<"1", "2">>, <<"3", "1">>) :
      l \in {"DD/MM/YYYY", "DD.MM.YYYY", "DD-MM-YYYY"}, y \in Years }

DateStrings ==
  StructuralDates
    \cup YearEnds
    \cup { s \o <<" ", "UTC">> : s \in StructuralDates }
    \cup { DateOnly \o <<"T", "0", "4", ":", "0", "0", ":", "0", "0", "Z">>,
           NoDate,
           NoDate \o <<" ", "UTC">>,
           NoDate \o <<" ", " ", "GMT">>,
           <<>> }

(***************************************************************************)
(* RDAP.  A JSON object is a function from its keys; a missing key is a    *)
(* key outside its domain.  A JSON array is a sequence.                    *)
(***************************************************************************)
\* obj.key, Null when the key is missing
Get(obj, key) == IF key \in DOMAIN obj THEN Some(obj[key]) ELSE Null

\* `arr && arr.length > 0` for a key that holds an array or is missing
NonEmptyArray(x) == ~IsNull(x) /\ Len(x[1]) > 0

\* String.prototype.toLowerCase of the last label of the domain
Tld(domain) == toLowerCase(pop(split(domain, ".")))

getRdapUrl(domain) ==
  IF Tld(domain) = <<"c", "o", "m">>
  THEN <<"https://rdap.verisign.com/com/v1/domain/">> \o domain
  ELSE <<"https://rdap.verisign.com/">> \o Tld(domain) \o <<"/v1/domain/">> \o domain

\* the fourth element of the first 'fn' entry of a vCard entry list, Null
\* when there is none
RECURSIVE FirstFn(_)
FirstFn(entries) ==
  IF entries = <<>> THEN Null
  ELSE IF Head(entries)[1] = "fn" THEN Some(Head(entries)[4])
  ELSE FirstFn(Tail(entries))

\* the loop over rdapData.entities: every entity with the role 'registrar'
\* and a vCard that has an 'fn' entry overwrites the registrar
RECURSIVE RegistrarOf(_, _)
RegistrarOf(entities, acc) ==
  IF entities = <<>> THEN acc
  ELSE LET entity == Head(entities)
           roles == Get(entity, "roles")
           vcardArray == Get(entity, "vcardArray")
           fn == IF /\ ~IsNull(roles)
                    /\ \E i \in 1..Len(roles[1]) : roles[1][i] = "registrar"
                    /\ ~IsNull(vcardArray)
                    /\ Len(vcardArray[1]) >= 2
                    /\ Len(vcardArray[1][2]) > 0
                 THEN FirstFn(vcardArray[1][2])
                 ELSE Null
       IN  RegistrarOf(Tail(entities), IF IsNull(fn) THEN acc ELSE fn)

\* the loop over rdapData.events for one output date: the last event with
\* one of the actions and a date wins
RECURSIVE EventDate(_, _, _)
EventDate(events, actions, acc) ==
  IF events = <<>> THEN acc
  ELSE LET event == Head(events)
           hit == /\ "eventAction" \in DOMAIN event
                  /\ event.eventAction \in actions
                  /\ "eventDate" \in DOMAIN event
                  /\ event.eventDate # <<>>
       IN  EventDate(Tail(events), actions, IF hit THEN Some(event.eventDate) ELSE acc)

\* JSON.stringify: the serialised form of a value
Stringify(json) == <<"JSON", json>>

parseRdapData(rdapData) ==
  IF IsNull(rdapData) THEN EmptyObject
  ELSE LET o == rdapData[1]
           entities == Get(o, "entities")
           events == Get(o, "events")
           nameservers == Get(o, "nameservers")
           status == Get(o, "status")
       IN  [ domain_name |-> IF ~IsNull(Get(o, "ldhName")) /\ o.ldhName # <<>>
                             THEN Some(o.ldhName) ELSE Null,
             registrar |-> IF NonEmptyArray(entities)
                           THEN RegistrarOf(entities[1], Null) ELSE Null,
             creation_date |-> IF NonEmptyArray(events)
                               THEN EventDate(events[1], {"registration"}, Null) ELSE Null,
             expiration_date |-> IF NonEmptyArray(events)
                                 THEN EventDate(events[1], {"expiration"}, Null) ELSE Null,
             updated_date |-> IF NonEmptyArray(events)
                              THEN EventDate(events[1], {"last changed", "last update"}, Null)
                              ELSE Null,
             name_servers |-> IF NonEmptyArray(nameservers)
                              THEN [i \in 1..Len(nameservers[1]) |-> Get(nameservers[1][i], "ldhName")]
                              ELSE <<>>,
             status |-> IF NonEmptyArray(status) THEN status[1] ELSE <<>>,
             source |-> "rdap",
             raw |-> Stringify(rdapData) ]

(***************************************************************************)
(* parseRdapData on any JSON value.  A value carries its type: null, a     *)
(* number, a string, an array (a sequence of values) or an object (a       *)
(* function from its keys to values); undefined is what reading a missing  *)
(* property yields.                                                        *)
(***************************************************************************)
JsNull == [t |-> "null", v |-> <<>>]

JsUndefined == [t |-> "undefined", v |-> <<>>]

Num(n) == [t |-> "number", n |-> n]

Obj(o) == [t |-> "object", props |-> o]

List(a) == [t |-> "array", items |-> a]

\* the value is the string s
IsStr(x, s) == x.t = "string" /\ x.v = s

\* the truthiness of a value: null, undefined, 0 and '' are falsy
Truthy(x) ==
  /\ x.t \notin {"null", "undefined"}
  /\ ~(x.t = "number" /\ x.n = 0)
  /\ ~(x.t = "string" /\ x.v = <<>>)

\* x.key for a value that is neither null nor undefined
Member(x, key) ==
  IF x.t = "object" THEN (IF key \in DOMAIN x.props THEN x.props[key] ELSE JsUndefined)
  ELSE IF x.t = "array" /\ key = "length" THEN Num(Len(x.items))
  ELSE IF x.t = "string" /\ key = "length" THEN Num(Len(x.v))
  ELSE JsUndefined

\* x[i], i counted from 0, for a value that is neither null nor undefined
At(x, i) ==
  IF x.t = "array" /\ i < Len(x.items) THEN x.items[i + 1]
  ELSE IF x.t = "string" /\ i < Len(x.v) THEN Str(<<x.v[i + 1]>>)
  ELSE JsUndefined

\* x && x.length > 0
HasLength(x) ==
  /\ Truthy(x)
  /\ Member(x, "length").t = "number"
  /\ Member(x, "length").n > 0

\* the values for...of yields: the elements of an array, the characters of
\* a string
Elements(x) ==
  IF x.t = "array" THEN x.items ELSE [i \in 1..Len(x.v) |-> Str(<<x.v[i]>>)]

\* a value for...of cannot iterate
NotIterable(x) == x.t \notin {"array", "string"}

\* reading a property of the value throws a TypeError
NoProperties(x) == x.t \in {"null", "undefined"}

\* entity.roles && entity.roles.includes('registrar'), for an entity whose
\* roles have the method
IsRegistrar(entity) ==
  LET roles == Member(entity, "roles")
  IN  /\ Truthy(roles)
      /\ IF roles.t = "array"
         THEN \E i \in 1..Len(roles.items) : IsStr(roles.items[i], <<"registrar">>)
         ELSE \E i \in 1..Len(roles.v) : roles.v[i] = "registrar"

\* entity.vcardArray && entity.vcardArray[1] && entity.vcardArray[1].length > 0
HasVcardEntries(entity) ==
  LET vcardArray == Member(entity, "vcardArray")
  IN  /\ Truthy(vcardArray)
      /\ Truthy(At(vcardArray, 1))
      /\ HasLength(At(vcardArray, 1))

\* VcardStop for an inner loop without the break: the last such entry
VcardStop_NoBreak(entries) ==
  LET stops == { i \in 1..Len(entries) :
                   NoProperties(entries[i]) \/ IsStr(At(entries[i], 0), <<"fn">>) }
  IN  IF stops = {} THEN 0 ELSE CHOOSE i \in stops : \A j \in stops : j <= i

\* the number of the first vCard entry that is null or begins with 'fn', 0
\* when there is none: where the inner loop stops
VcardStop(entries) ==
  FirstIndex({ i \in 1..Len(entries) :
                 NoProperties(entries[i]) \/ IsStr(At(entries[i], 0), <<"fn">>) })

\* the body of the loop over the entities throws for this entity
EntityThrows(entity) ==
  \/ NoProperties(entity)
  \/ LET roles == Member(entity, "roles")
     IN  Truthy(roles) /\ roles.t \notin {"array", "string"}
  \/ /\ IsRegistrar(entity)
     /\ HasVcardEntries(entity)
     /\ LET list == At(Member(entity, "vcardArray"), 1)
        IN  \/ NotIterable(list)
            \/ LET stop == VcardStop(Elements(list))
               IN  stop # 0 /\ NoProperties(Elements(list)[stop])

\* parseRdapData throws a TypeError
RdapThrows(rdapData) ==
  LET entities == Member(rdapData, "entities")
      events == Member(rdapData, "events")
      nameservers == Member(rdapData, "nameservers")
  IN  \/ /\ HasLength(entities)
         /\ \/ NotIterable(entities)
            \/ \E i \in 1..Len(Elements(entities)) : EntityThrows(Elements(entities)[i])
      \/ /\ HasLength(events)
         /\ \/ NotIterable(events)
            \/ \E i \in 1..Len(Elements(events)) : NoProperties(Elements(events)[i])
      \/ /\ HasLength(nameservers)
         /\ \/ nameservers.t # "array"
            \/ \E i \in 1..Len(nameservers.items) : NoProperties(nameservers.items[i])

\* result.registrar after the loop over the entities: every entity with the
\* role and an 'fn' entry assigns the fourth element of that entry
RECURSIVE RegistrarAfter(_, _)
RegistrarAfter(entities, acc) ==
  IF entities = <<>> THEN acc
  ELSE LET entity == Head(entities)
           stop == IF IsRegistrar(entity) /\ HasVcardEntries(entity)
                   THEN VcardStop(Elements(At(Member(entity, "vcardArray"), 1)))
                   ELSE 0
       IN  RegistrarAfter(Tail(entities),
             IF stop = 0 THEN acc
             ELSE At(Elements(At(Member(entity, "vcardArray"), 1))[stop], 3))

\* a date of the result after the loop over the events: every event with one
\* of the actions and a truthy date assigns the date
RECURSIVE DateAfter(_, _, _)
DateAfter(events, actions, acc) ==
  IF events = <<>> THEN acc
  ELSE LET event == Head(events)
           hit == /\ \E a \in actions : IsStr(Member(event, "eventAction"), <<a>>)
                  /\ Truthy(Member(event, "eventDate"))
       IN  DateAfter(Tail(events), actions, IF hit THEN Member(event, "eventDate") ELSE acc)

\* parseRdapData for any JSON value: whether it threw, and the object it
\* returned when it did not
parseRdapValue(rdapData) ==
  IF ~Truthy(rdapData) THEN [threw |-> FALSE, value |-> EmptyObject]
  ELSE IF RdapThrows(rdapData) THEN [threw |-> TRUE, value |-> EmptyObject]
  ELSE LET ldhName == Member(rdapData, "ldhName")
           entities == Member(rdapData, "entities")
           events == Member(rdapData, "events")
           nameservers == Member(rdapData, "nameservers")
           status == Member(rdapData, "status")
           eventList == IF HasLength(events) THEN Elements(events) ELSE <<>>
       IN  [ threw |-> FALSE,
             value |->
               [ domain_name |-> IF Truthy(ldhName) THEN ldhName ELSE JsNull,
                 registrar |-> IF HasLength(entities)
                               THEN RegistrarAfter(Elements(entities), JsNull) ELSE JsNull,
                 creation_date |-> DateAfter(eventList, {"registration"}, JsNull),
                 expiration_date |-> DateAfter(eventList, {"expiration"}, JsNull),
                 updated_date |-> DateAfter(eventList, {"last changed", "last update"}, JsNull),
                 name_servers |-> IF HasLength(nameservers)
                                  THEN List([i \in 1..Len(nameservers.items) |->
                                               Member(nameservers.items[i], "ldhName")])
                                  ELSE List(<<>>),
                 status |-> IF HasLength(status) THEN status ELSE List(<<>>),
                 source |-> Str(<<"rdap">>),
                 raw |-> Stringify(rdapData) ] ]

\* the JSON values explored: null, and the objects that have, for each key
\* parseRdapData reads, no such key, a value of the expected shape, or one
\* of a few values of another shape
Missing == [t |-> "missing", v |-> <<>>]

FnEntry ==
  List(<< Str(<<"fn">>), Obj(EmptyObject), Str(<<"text">>), Str(<<"Example Registrar">>) >>)

\* a second 'fn' entry, and an entry that is no 'fn' entry
FnEntryLater ==
  List(<< Str(<<"fn">>), Obj(EmptyObject), Str(<<"text">>), Str(<<"Example Reseller">>) >>)

VersionEntry ==
  List(<< Str(<<"version">>), Obj(EmptyObject), Str(<<"text">>), Str(<<"4.0">>) >>)

\* an entity with another role and a name of its own
RegistrantEntity ==
  Obj([ roles |-> List(<< Str(<<"registrant">>) >>),
        vcardArray |-> List(<< Str(<<"vcard">>),
                               List(<< List(<< Str(<<"fn">>), Obj(EmptyObject), Str(<<"text">>),
                                               Str(<<"Example Holder">>) >>) >>) >>) ])

Event(action, date) == Obj([eventAction |-> Str(<<action>>), eventDate |-> Str(<<date>>)])

RegistrarEntity(entries) ==
  Obj([ roles |-> List(<< Str(<<"registrar">>) >>),
        vcardArray |-> List(<< Str(<<"vcard">>), List(entries) >>) ])

LdhNameShapes == { Missing, Str(<<"A.COM">>), Num(42), JsNull }

EntitiesShapes ==
  { Missing,
    List(<<>>),
    List(<< RegistrarEntity(<< FnEntry >>) >>),
    List(<< RegistrarEntity(<< JsNull, FnEntry >>) >>),
    List(<< RegistrarEntity(<< VersionEntry, FnEntry, FnEntryLater >>), RegistrantEntity >>),
    List(<< RegistrantEntity, RegistrarEntity(<< VersionEntry >>) >>),
    List(<< RegistrarEntity(<< FnEntryLater >>), RegistrarEntity(<< FnEntry >>) >>),
    List(<< Obj([roles |-> List(<< Str(<<"registrar">>) >>)]) >>),
    List(<< Obj([roles |-> Num(5)]) >>),
    List(<< Obj(EmptyObject) >>),
    List(<< JsNull >>),
    Str(<<"x">>) }

EventsShapes ==
  { Missing,
    List(<<>>),
    List(<< Obj([eventAction |-> Str(<<"registration">>),
                eventDate |-> Str(<<"1995-08-14T04:00:00Z">>)]) >>),
    List(<< Obj([eventAction |-> Str(<<"expiration">>)]) >>),
    List(<< Event("last changed", "2024-02-05T04:00:00Z"),
            Event("expiration", "2025-08-13T04:00:00Z"),
            Event("registration", "1995-08-14T04:00:00Z"),
            Event("transfer", "2020-12-28T04:00:00Z") >>),
    List(<< Event("last changed", "2024-02-05T04:00:00Z"),
            Event("last update", "2024-12-28T04:00:00Z") >>),
    List(<< JsNull >>) }

NameserversShapes ==
  { Missing,
    List(<<>>),
    List(<< Obj([ldhName |-> Str(<<"A.IANA-SERVERS.NET">>)]) >>),
    List(<< Obj([ldhName |-> Str(<<"B.IANA-SERVERS.NET">>)]),
            Obj([ldhName |-> Str(<<"A.IANA-SERVERS.NET">>)]) >>),
    List(<< Obj(EmptyObject) >>),
    List(<< JsNull >>),
    Str(<<"A.IANA-SERVERS.NET">>) }

StatusShapes ==
  { Missing, List(<<>>), List(<< Str(<<"active">>) >>),
    List(<< Str(<<"client transfer prohibited">>), Str(<<"active">>) >>),
    Str(<<"active">>) }

\* the object with the keys for which a value was chosen
RdapObject(choice) ==
  Obj([ key \in {k \in DOMAIN choice : choice[k].t # "missing"} |-> choice[key] ])

RdapValues ==
  {JsNull}
    \cup { RdapObject(choice) :
             choice \in [ ldhName : LdhNameShapes, entities : EntitiesShapes,
                          events : EventsShapes, nameservers : NameserversShapes,
                          status : StatusShapes ] }

\* the RDAP documents a fetch may deliver
RdapFull ==
  [ ldhName |-> <<"A.COM">>,
    entities |-> << [ roles |-> <<"registrar">>,
                      vcardArray |-> << "vcard",
                                        << <<"version", "", "text", "4.0">>,
                                           <<"fn", "", "text", <<"Example Registrar">>>> >> >> ] >>,
    events |-> << [eventAction |-> "registration", eventDate |-> <<"1995-08-14T04:00:00Z">>],
                  [eventAction |-> "expiration", eventDate |-> <<"2025-08-13T04:00:00Z">>] >>,
    nameservers |-> << [ldhName |-> <<"A.IANA-SERVERS.NET">>] >>,
    status |-> <<"client transfer prohibited">> ]

RdapBare == [ldhName |-> <<"A.COM">>]

RdapJsons == {Null, Some(RdapBare), Some(RdapFull)}

\* the failures of fetchRdapData: a non-success status, a transport failure
RdapErrors ==
  { <<"Failed to fetch RDAP data:", "RDAP server responded with status:", "404">>,
    <<"Failed to fetch RDAP data:", "fetch failed">> }

(***************************************************************************)
(* Options.  A caller passes an object in which any option may be missing; *)
(* the destructuring of queryWhois supplies the defaults.                  *)
(***************************************************************************)
\* the retryDelay values a caller passes explicitly
RetryDelays == {250}

\* the option objects explored: none of the options, or all the options
\* the variant reads
OptionSets(v) ==
  {EmptyObject}
    \cup IF v = "aware"
         THEN [ follow : BOOLEAN,
                retryCount : 0..MaxRetryCount,
                retryDelay : RetryDelays,
                handleRateLimit : BOOLEAN,
                useRdapOnRateLimit : BOOLEAN ]
         ELSE [ follow : BOOLEAN,
                retryCount : 0..MaxRetryCount,
                retryDelay : RetryDelays,
                handleRateLimit : BOOLEAN ]

\* const { key = default } = options
Opt(opts, key, default) == IF key \in DOMAIN opts THEN opts[key] ELSE default

(***************************************************************************)
(* Errors.  The message of an error is a sequence of tokens.               *)
(***************************************************************************)
TimeoutError(server) == <<"Connection to">> \o server \o <<"timed out">>

ConnectionError(server, msg) == <<"Error querying">> \o server \o <<":", msg>>

\* the failures one socket session with a server can end in
SessionErrors(server) ==
  {TimeoutError(server), ConnectionError(server, "ECONNREFUSED")}

MaxAttemptsError == <<"Maximum retry attempts reached">>

\* new Error(`WHOIS lookup failed: ${error.message}`)
WrapLookupError(msg) == <<"WHOIS lookup failed:">> \o msg

(***************************************************************************)
(* State.                                                                  *)
(***************************************************************************)
VARIABLES
  variant,      \* "aware": the RDAP-aware orchestrator; "unaware": its predecessor
  domain,       \* the domain argument of whois()
  options,      \* the options argument of whois()
  pc,           \* the position of the call
  attempts,     \* let attempts
  lastError,    \* let lastError: Null or Some(message)
  whoisData,    \* const whoisData of the current iteration: Null or Some(text)
  result,       \* what queryWhois returned: Null or Some(value)
  thrown,       \* what the call threw: Null or Some(message)
  record,       \* what whois() returned: Null or Some(record)
  nSessions,    \* number of socket sessions opened so far
  nRdap,        \* number of RDAP requests made so far
  nWaits,       \* number of timer waits completed so far
  timer,        \* the setTimeout the call is waiting on: Null or Some(ms)
  rejected,     \* the most recent rejection of queryWhoisServer: Null or Some(message)
  nFailed,      \* number of socket sessions that ended in a rejection
  net,          \* how the most recent network operation ended, "none" before the first
  heard,        \* the text the latest step received from a server: Null or Some(text)
  \* one call of queryWhoisServer
  args,         \* its arguments: domain, server, timeout
  client,       \* const client = new Socket(): Null before the call
  received,     \* let whoisData of queryWhoisServer: the text accumulated
  promise,      \* the promise it returns: pending, resolved or rejected
  log,          \* the events the socket has emitted, in order
  \* several calls of whois() in one process
  active,       \* the call that is running: its state is in the variables above
  suspended,    \* the state of each call that is waiting at an await or not yet made
  \* one call of a function of the extraction module
  input,        \* its argument
  output,       \* what it returned: Null before the call
  table,        \* the pattern objects of WHOIS_PATTERNS, with their lastIndex
  calls,        \* the calls a caller has made in a row, with what each returned
  \* one run of the batch script
  domains,      \* const domains: the list the script works through
  results,      \* const results of processAllDomains
  index,        \* how many elements the for...of loop has taken from domains
  retries,      \* the parameter retries of the processDomain call under way
  failure,      \* the error its catch block caught last: Null or Some(message)
  at,           \* the position of the script
  journal       \* the calls of queryWhois, setTimeout and writeFile, in order

queryVars ==
  << variant, domain, options, pc, attempts, lastError, whoisData, result,
     thrown, record, nSessions, nRdap, nWaits, timer, rejected, nFailed, net, heard >>

socketVars == << args, client, received, promise, log >>

callVars == << active, suspended >>

parseVars == << input, output, table, calls >>

batchVars == << domains, results, index, retries, failure, at, journal >>

vars == << queryVars, socketVars, callVars, parseVars, batchVars >>

\* the options of the call after the defaults are applied
timeout == Opt(options, "timeout", DefaultTimeout)

follow == Opt(options, "follow", FALSE)

retryCount == Opt(options, "retryCount", DefaultRetryCount)

retryDelay == Opt(options, "retryDelay", DefaultRetryDelay)

handleRateLimit == Opt(options, "handleRateLimit", TRUE)

\* the RDAP-unaware variant has no RDAP fallback
useRdapOnRateLimit ==
  variant = "aware" /\ Opt(options, "useRdapOnRateLimit", TRUE)

\* no call of queryWhoisServer is looked into
NoSocket ==
  /\ args = [domain |-> PlainDomain.v, server |-> getWhoisServer, timeout |-> DefaultTimeout]
  /\ client = Null
  /\ received = <<>>
  /\ promise = [state |-> "none"]
  /\ log = <<>>

\* one call of whois() has the process to itself
Solo ==
  /\ active = 1
  /\ suspended = <<>>

\* the batch script is not run
NoBatch ==
  /\ domains = <<>>
  /\ results = <<>>
  /\ index = 0
  /\ retries = 0
  /\ failure = Null
  /\ at = "none"
  /\ journal = <<>>

\* no call of the extraction module is looked into
NoParse ==
  /\ input = <<>>
  /\ output = Null
  /\ table = PatternTable
  /\ calls = <<>>

Init ==
  /\ variant \in {"aware", "unaware"}
  /\ domain \in Domains
  /\ options \in OptionSets(variant)
  /\ domain # PlainDomain => options = EmptyObject
  /\ pc = "start"
  /\ attempts = 0
  /\ lastError = Null
  /\ whoisData = Null
  /\ result = Null
  /\ thrown = Null
  /\ record = Null
  /\ nSessions = 0
  /\ nRdap = 0
  /\ nWaits = 0
  /\ timer = Null
  /\ rejected = Null
  /\ nFailed = 0
  /\ net = "none"
  /\ heard = Null
  /\ NoSocket
  /\ Solo
  /\ NoBatch
  /\ NoParse

(***************************************************************************)
(* queryWhois: validation.                                                 *)
(***************************************************************************)
\* ValidationError without the check of the top-level label
ValidationError_NoTldCheck(d) ==
  IF d.t # "string" \/ d.v = <<>>
  THEN Some(<<"Domain name is required and must be a string">>)
  ELSE IF Len(split(d.v, ".")) < 2
  THEN Some(<<"Invalid domain format">>)
  ELSE Null

\* the message of the error the three checks at the head of queryWhois
\* throw for a domain argument, Null when the argument passes them
ValidationError(d) ==
  IF d.t # "string" \/ d.v = <<>>
  THEN Some(<<"Domain name is required and must be a string">>)
  ELSE IF Len(split(d.v, ".")) < 2
  THEN Some(<<"Invalid domain format">>)
  ELSE IF toLowerCase(pop(split(d.v, "."))) # <<"c", "o", "m">>
  THEN Some(<<"This library only supports .com domains">>)
  ELSE Null

Validate ==
  /\ pc = "start"
  /\ IF ~IsNull(ValidationError(domain))
     THEN /\ thrown' = ValidationError(domain)
          /\ pc' = "failed"
     ELSE /\ thrown' = thrown
          /\ pc' = "loop"
  /\ heard' = Null
  /\ UNCHANGED << socketVars, callVars, parseVars, batchVars >>
  /\ UNCHANGED << net, nFailed, variant, domain, options, attempts, lastError, whoisData,
                  result, record, nSessions, nRdap, nWaits, timer,
                  rejected >>

(***************************************************************************)
(* queryWhois: the retry loop.                                             *)
(***************************************************************************)
\* throw lastError || new Error('Maximum retry attempts reached'), as the
\* outer catch rethrows it
FinalError(err) ==
  WrapLookupError(IF IsNull(err) THEN MaxAttemptsError ELSE err[1])


\* LoopTest with the RDAP fetch after the loop made whatever the option says
LoopTest_RescueAlways ==
  /\ pc = "loop"
  /\ IF attempts < retryCount
     THEN /\ pc' = "session"
          /\ thrown' = thrown
     ELSE IF variant = "aware"
     THEN /\ pc' = "rdapRescue"
          /\ thrown' = thrown
     ELSE /\ pc' = "failed"
          /\ thrown' = Some(FinalError(lastError))
  /\ whoisData' = Null
  /\ heard' = Null
  /\ UNCHANGED << socketVars, callVars, parseVars, batchVars >>
  /\ UNCHANGED << net, nFailed, variant, domain, options, attempts, lastError, result,
                  record, nSessions, nRdap, nWaits, timer, rejected >>

\* while (attempts < retryCount): enter the body, or leave the loop for the
\* RDAP rescue or the final throw
LoopTest ==
  /\ pc = "loop"
  /\ IF attempts < retryCount
     THEN /\ pc' = "session"
          /\ thrown' = thrown
     ELSE IF useRdapOnRateLimit
     THEN /\ pc' = "rdapRescue"
          /\ thrown' = thrown
     ELSE /\ pc' = "failed"
          /\ thrown' = Some(FinalError(lastError))
  /\ whoisData' = Null
  /\ heard' = Null
  /\ UNCHANGED << socketVars, callVars, parseVars, batchVars >>
  /\ UNCHANGED << net, nFailed, variant, domain, options, attempts, lastError, result,
                  record, nSessions, nRdap, nWaits, timer, rejected >>

\* WantsRdap without the test of the two signals
WantsRdap_Always(text) == useRdapOnRateLimit

\* (rateLimitDelay || rdapRecommended) && useRdapOnRateLimit
WantsRdap(text) ==
  /\ TruthyNum(extractRateLimit(text)) \/ isRdapRecommended(text)
  /\ useRdapOnRateLimit

\* rateLimitDelay && handleRateLimit && attempts < retryCount - 1
WantsRateLimitWait(text, att) ==
  /\ TruthyNum(extractRateLimit(text))
  /\ handleRateLimit
  /\ att < retryCount - 1

\* WantsReferral with the re-query in the RDAP-aware variant too
WantsReferral_BothVariants(text) ==
  /\ follow
  /\ ~IsNull(referralServer(text, getWhoisServer))

\* the referral re-query of the RDAP-unaware variant; the RDAP-aware variant
\* detects the referral and returns the first response all the same
WantsReferral(text) ==
  /\ variant = "unaware"
  /\ follow
  /\ ~IsNull(referralServer(text, getWhoisServer))

\* the arguments of the queryWhoisServer call in progress
SessionArgs ==
  [ domain |-> domain.v,
    server |-> IF pc = "refSession" THEN referralServer(whoisData[1], getWhoisServer)[1]
               ELSE getWhoisServer,
    timeout |-> timeout ]

\* what queryWhois returns for a WHOIS response
WhoisResult(text) ==
  IF variant = "aware"
  THEN [data |-> text, protocol |-> "whois", raw |-> text]
  ELSE [data |-> text]

\* what queryWhois returns for an RDAP document
RdapResult(rdapData) ==
  [data |-> parseRdapData(rdapData), protocol |-> "rdap", raw |-> Stringify(rdapData)]


(***************************************************************************)
(* whois(): the record built from what queryWhois returned.                *)
(***************************************************************************)
\* { ...a, ...b }: the keys of both, b's value where both have the key
Spread(a, b) ==
  [k \in DOMAIN a \cup DOMAIN b |-> IF k \in DOMAIN b THEN b[k] ELSE a[k]]

\* the flags whois() gives a record whose data came from RDAP
RdapFlags(res, d) ==
  [ raw |-> res.raw,
    rate_limited |-> FALSE,
    rate_limit_seconds |-> 0,
    rdap_recommended |-> TRUE,
    rdap_url |-> Some(getRdapUrl(d)),
    protocol |-> "rdap" ]

\* WhoisFlags with rate_limited true for every notice, of 0 seconds too
WhoisFlags_AnyNotice(text, d) ==
  [ raw |-> text,
    rate_limited |-> ~IsNull(extractRateLimit(text)),
    rate_limit_seconds |-> OrZero(extractRateLimit(text)),
    rdap_recommended |-> isRdapRecommended(text),
    rdap_url |-> IF isRdapRecommended(text) THEN Some(getRdapUrl(d)) ELSE Null ]

\* the flags whois() gives a record whose data came from WHOIS
WhoisFlags(text, d) ==
  [ raw |-> text,
    rate_limited |-> TruthyNum(extractRateLimit(text)),
    rate_limit_seconds |-> OrZero(extractRateLimit(text)),
    rdap_recommended |-> isRdapRecommended(text),
    rdap_url |-> IF isRdapRecommended(text) THEN Some(getRdapUrl(d)) ELSE Null ]

WhoisRecord(res, d) ==
  IF variant = "aware"
  THEN IF res.protocol = "rdap"
       THEN Spread(res.data, RdapFlags(res, d))
       ELSE Spread(parseWhois(res.data),
                   Spread(WhoisFlags(res.data, d), [protocol |-> "whois"]))
  ELSE Spread(parseWhois(res.data), WhoisFlags(res.data, d))

\* const delayMs = rateLimitDelay * 1000
RateLimitDelayMs(text) == extractRateLimit(text)[1] * 1000

\* queryWhois returns res and whois() builds its record from it
Return(res) ==
  /\ result' = Some(res)
  /\ record' = Some(WhoisRecord(res, domain.v))
  /\ whoisData' = Null
  /\ pc' = "done"

\* the part of the loop body after the RDAP attempt, if any: wait out the
\* rate limit, follow the referral, or return the response
AfterRdapAttempt(text) ==
  IF WantsRateLimitWait(text, attempts)
  THEN /\ pc' = "rateWait"
       /\ timer' = Some(RateLimitDelayMs(text))
       /\ whoisData' = Some(text)
       /\ UNCHANGED << result, record >>
  ELSE IF WantsReferral(text)
  THEN /\ pc' = "refSession"
       /\ whoisData' = Some(text)
       /\ UNCHANGED << timer, result, record >>
  ELSE /\ Return(WhoisResult(text))
       /\ UNCHANGED timer

\* other calls are under way in the process; the responses they all get are
\* then short ones
Concurrent == DOMAIN suspended # {}

\* SessionResponds for a queryWhoisServer call that is not awaited: the loop
\* body goes on while the session is still under way
SessionResponds_NotAwaited(text) ==
  /\ pc = "session"
  /\ text \in Texts(variant)
  /\ Concurrent => Len(text) <= MaxConcurrentLines
  /\ nSessions' = nSessions
  /\ IF WantsRdap(text)
     THEN /\ pc' = "rdapFallback"
          /\ whoisData' = Some(text)
          /\ UNCHANGED << timer, result, record >>
     ELSE AfterRdapAttempt(text)
  /\ net' = net
  /\ heard' = Some(text)
  /\ UNCHANGED << socketVars, callVars, parseVars, batchVars >>
  /\ UNCHANGED << nFailed, variant, domain, options, attempts, lastError, thrown,
                  nRdap, nWaits, rejected >>

\* a session with the authoritative server ends with the peer closing the
\* stream: queryWhoisServer resolves with the text received
SessionResponds(text) ==
  /\ pc = "session"
  /\ text \in Texts(variant)
  /\ Concurrent => Len(text) <= MaxConcurrentLines
  /\ nSessions' = nSessions + 1
  /\ IF WantsRdap(text)
     THEN /\ pc' = "rdapFallback"
          /\ whoisData' = Some(text)
          /\ UNCHANGED << timer, result, record >>
     ELSE AfterRdapAttempt(text)
  /\ net' = "whois-ok"
  /\ heard' = Some(text)
  /\ UNCHANGED << socketVars, callVars, parseVars, batchVars >>
  /\ UNCHANGED << nFailed, variant, domain, options, attempts, lastError, thrown,
                  nRdap, nWaits, rejected >>

\* CatchLastError keeping the error of the first failed session
CatchLastError_First(prev, error) == IF IsNull(prev) THEN Some(error) ELSE prev

\* CatchLastError without the assignment: the error is not recorded
CatchLastError_NotRecorded(prev, error) == prev

\* lastError = error
CatchLastError(prev, error) == Some(error)

\* CatchWaits with a delay after the failure that uses up the last attempt
CatchWaits_AfterLast(att) == att <= retryCount

\* if (attempts < retryCount), on the count after attempts++
CatchWaits(att) == att < retryCount

\* a session (with the authoritative or the referral server) ends in a
\* timeout or a transport error: queryWhoisServer rejects
SessionFails(err) ==
  /\ pc \in {"session", "refSession"}
  /\ err \in SessionErrors(IF pc = "session" THEN getWhoisServer
                           ELSE referralServer(whoisData[1], getWhoisServer)[1])
  /\ nSessions' = nSessions + 1
  /\ rejected' = Some(err)
  /\ nFailed' = nFailed + 1
  /\ whoisData' = Null
  /\ pc' = "catch"
  /\ net' = "whois-fail"
  /\ heard' = Null
  /\ UNCHANGED << socketVars, callVars, parseVars, batchVars >>
  /\ UNCHANGED << variant, domain, options, attempts, lastError, result,
                  thrown, record, nRdap, nWaits, timer >>

\* Catch without a retry: the first rejection is rethrown to the caller
Catch_ThrowsAtOnce ==
  /\ pc = "catch"
  /\ lastError' = Some(rejected[1])
  /\ attempts' = attempts + 1
  /\ thrown' = Some(WrapLookupError(rejected[1]))
  /\ pc' = "failed"
  /\ heard' = Null
  /\ UNCHANGED << socketVars, callVars, parseVars, batchVars >>
  /\ UNCHANGED << net, nFailed, variant, domain, options, whoisData, result, record,
                  nSessions, nRdap, nWaits, rejected, timer >>

\* Catch without attempts++: a failed session is retried without being
\* counted
Catch_NotCounted ==
  /\ pc = "catch"
  /\ lastError' = CatchLastError(lastError, rejected[1])
  /\ attempts' = attempts
  /\ IF CatchWaits(attempts)
     THEN /\ pc' = "retryWait"
          /\ timer' = Some(retryDelay)
     ELSE /\ pc' = "loop"
          /\ timer' = timer
  /\ heard' = Null
  /\ UNCHANGED << socketVars, callVars, parseVars, batchVars >>
  /\ UNCHANGED << net, nFailed, variant, domain, options, whoisData, result, thrown, record,
                  nSessions, nRdap, nWaits, rejected >>

\* the catch block of the loop body: record the error, count the attempt,
\* and start the retry delay when attempts remain
Catch ==
  /\ pc = "catch"
  /\ lastError' = CatchLastError(lastError, rejected[1])
  /\ attempts' = attempts + 1
  /\ IF CatchWaits(attempts + 1)
     THEN /\ pc' = "retryWait"
          /\ timer' = Some(retryDelay)
     ELSE /\ pc' = "loop"
          /\ timer' = timer
  /\ heard' = Null
  /\ UNCHANGED << socketVars, callVars, parseVars, batchVars >>
  /\ UNCHANGED << net, nFailed, variant, domain, options, whoisData, result, thrown, record,
                  nSessions, nRdap, nWaits, rejected >>

\* the retry delay is over: back to the loop test
RetryWait ==
  /\ pc = "retryWait"
  /\ nWaits' = nWaits + 1
  /\ timer' = Null
  /\ pc' = "loop"
  /\ heard' = Null
  /\ UNCHANGED << socketVars, callVars, parseVars, batchVars >>
  /\ UNCHANGED << net, nFailed, variant, domain, options, attempts, lastError, whoisData,
                  result, thrown, record, nSessions, nRdap, rejected >>

\* RateLimitWait with a counter of its own for the rate-limit retries: the
\* attempt count is left as it is
RateLimitWait_OwnCounter ==
  /\ pc = "rateWait"
  /\ nWaits' = nWaits + 1
  /\ timer' = Null
  /\ attempts' = attempts
  /\ whoisData' = Null
  /\ pc' = "loop"
  /\ heard' = Null
  /\ UNCHANGED << socketVars, callVars, parseVars, batchVars >>
  /\ UNCHANGED << net, nFailed, variant, domain, options, lastError, result, thrown, record,
                  nSessions, nRdap, rejected >>

\* the rate-limit wait is over: attempts++ and continue
RateLimitWait ==
  /\ pc = "rateWait"
  /\ nWaits' = nWaits + 1
  /\ timer' = Null
  /\ attempts' = attempts + 1
  /\ whoisData' = Null
  /\ pc' = "loop"
  /\ heard' = Null
  /\ UNCHANGED << socketVars, callVars, parseVars, batchVars >>
  /\ UNCHANGED << net, nFailed, variant, domain, options, lastError, result, thrown, record,
                  nSessions, nRdap, rejected >>

\* ReferralResponds treating the text of the referral server as a first
\* response: a referral field in it is followed by one more session
ReferralResponds_FollowsOn(text) ==
  /\ pc = "refSession"
  /\ text \in ReferralTexts(variant)
  /\ nSessions' = nSessions + 1
  /\ IF WantsReferral(text)
     THEN /\ pc' = "refSession"
          /\ whoisData' = Some(text)
          /\ UNCHANGED << result, record >>
     ELSE Return(WhoisResult(text))
  /\ net' = "whois-ok"
  /\ heard' = Some(text)
  /\ UNCHANGED << socketVars, callVars, parseVars, batchVars >>
  /\ UNCHANGED << nFailed, variant, domain, options, attempts, lastError, thrown,
                  nRdap, nWaits, timer, rejected >>

\* the session with the referral server ends with the peer closing the
\* stream: its text is what queryWhois returns
ReferralResponds(text) ==
  /\ pc = "refSession"
  /\ text \in ReferralTexts(variant)
  /\ nSessions' = nSessions + 1
  /\ Return(WhoisResult(text))
  /\ net' = "whois-ok"
  /\ heard' = Some(text)
  /\ UNCHANGED << socketVars, callVars, parseVars, batchVars >>
  /\ UNCHANGED << nFailed, variant, domain, options, attempts, lastError, thrown,
                  nRdap, nWaits, timer, rejected >>

(***************************************************************************)
(* queryWhois: the RDAP attempts.                                          *)
(***************************************************************************)
\* the RDAP fetch made for a rate-limited or deprecated response succeeds
RdapFallbackSucceeds(rdapData) ==
  /\ pc = "rdapFallback"
  /\ nRdap' = nRdap + 1
  /\ Return(RdapResult(rdapData))
  /\ net' = "rdap-ok"
  /\ heard' = Null
  /\ UNCHANGED << socketVars, callVars, parseVars, batchVars >>
  /\ UNCHANGED << nFailed, variant, domain, options, attempts, lastError, thrown,
                  nSessions, nWaits, timer, rejected >>

\* that fetch fails: the error is logged and the loop body goes on with the
\* WHOIS response
RdapFallbackFails(err) ==
  /\ pc = "rdapFallback"
  /\ nRdap' = nRdap + 1
  /\ net' = "rdap-fail"
  /\ AfterRdapAttempt(whoisData[1])
  /\ heard' = Null
  /\ UNCHANGED << socketVars, callVars, parseVars, batchVars >>
  /\ UNCHANGED << nFailed, variant, domain, options, attempts, lastError, thrown,
                  nSessions, nWaits, rejected >>

\* the RDAP fetch made after the loop succeeds
RdapRescueSucceeds(rdapData) ==
  /\ pc = "rdapRescue"
  /\ nRdap' = nRdap + 1
  /\ Return(RdapResult(rdapData))
  /\ net' = "rdap-ok"
  /\ heard' = Null
  /\ UNCHANGED << socketVars, callVars, parseVars, batchVars >>
  /\ UNCHANGED << nFailed, variant, domain, options, attempts, lastError, thrown,
                  nSessions, nWaits, timer, rejected >>

\* that fetch fails: throw lastError || new Error(...)
RdapRescueFails(err) ==
  /\ pc = "rdapRescue"
  /\ nRdap' = nRdap + 1
  /\ thrown' = Some(FinalError(lastError))
  /\ pc' = "failed"
  /\ net' = "rdap-fail"
  /\ heard' = Null
  /\ UNCHANGED << socketVars, callVars, parseVars, batchVars >>
  /\ UNCHANGED << nFailed, variant, domain, options, attempts, lastError, whoisData,
                  result, record, nSessions, nWaits, timer, rejected >>

Next ==
  \/ Validate
  \/ LoopTest
  \/ \E text \in Texts("unaware") : SessionResponds(text)
  \/ \E err \in SessionErrors(getWhoisServer) \cup SessionErrors(ReferralHost) :
       SessionFails(err)
  \/ Catch
  \/ RetryWait
  \/ RateLimitWait
  \/ \E text \in ReferralTexts("unaware") : ReferralResponds(text)
  \/ \E rdapData \in RdapJsons : RdapFallbackSucceeds(rdapData)
  \/ \E err \in RdapErrors : RdapFallbackFails(err)
  \/ \E rdapData \in RdapJsons : RdapRescueSucceeds(rdapData)
  \/ \E err \in RdapErrors : RdapRescueFails(err)

Spec == Init /\ [][Next]_vars

\* the same call when every session, RDAP fetch and wait under way settles.
\* A step of the call's own (the validation, the loop test, the catch block)
\* runs once it is reached, and a timer that was set fires; of a session or
\* an RDAP fetch it is assumed that the call is not left waiting for it
\* forever
LiveSpec ==
  /\ Init /\ [][Next]_vars
  /\ WF_vars(Validate) /\ WF_vars(LoopTest) /\ WF_vars(Catch)
  /\ WF_vars(RetryWait) /\ WF_vars(RateLimitWait)
  /\ \A p \in {"session", "refSession", "rdapFallback", "rdapRescue"} : []<>(pc # p)

(***************************************************************************)
(* Several calls in one process.  The calls are those of the RDAP-aware    *)
(* queryWhois; a call runs until it awaits, and any other call may run     *)
(* then.  The variables of queryWhois are declared in the function body,   *)
(* so each call has its own.                                               *)
(***************************************************************************)
CallIds == {1, 2}

\* the options of the calls made side by side
ConcurrentOptions ==
  [ follow |-> FALSE, retryCount |-> 2, retryDelay |-> 250,
    handleRateLimit |-> TRUE, useRdapOnRateLimit |-> TRUE ]

\* the state of a call that has not started
NotStarted(v, d, o) ==
  << v, d, o, "start", 0, Null, Null, Null, Null, Null, 0, 0, 0, Null, Null, 0, "none", Null >>

ConcurrentInit ==
  /\ variant = "aware"
  /\ domain = PlainDomain
  /\ options = ConcurrentOptions
  /\ pc = "start"
  /\ attempts = 0
  /\ lastError = Null
  /\ whoisData = Null
  /\ result = Null
  /\ thrown = Null
  /\ record = Null
  /\ nSessions = 0
  /\ nRdap = 0
  /\ nWaits = 0
  /\ timer = Null
  /\ rejected = Null
  /\ nFailed = 0
  /\ net = "none"
  /\ heard = Null
  /\ NoSocket
  /\ active = 1
  /\ suspended = [c \in CallIds \ {1} |-> NotStarted(variant, domain, options)]
  /\ NoParse
  /\ NoBatch

\* the positions at which a call awaits, has returned or has thrown
SuspendPoints ==
  {"session", "refSession", "retryWait", "rateWait", "rdapFallback", "rdapRescue",
   "done", "failed"}

\* Resume with an attempt counter declared at module level
Resume_SharedAttempts(s) ==
  /\ variant' = s[1] /\ domain' = s[2] /\ options' = s[3] /\ pc' = s[4]
  /\ attempts' = attempts /\ lastError' = s[6] /\ whoisData' = s[7] /\ result' = s[8]
  /\ thrown' = s[9] /\ record' = s[10] /\ nSessions' = s[11] /\ nRdap' = s[12]
  /\ nWaits' = s[13] /\ timer' = s[14] /\ rejected' = s[15] /\ nFailed' = s[16]
  /\ net' = s[17] /\ heard' = s[18]

\* a call goes on with the variables of its own closure
Resume(s) ==
  /\ variant' = s[1] /\ domain' = s[2] /\ options' = s[3] /\ pc' = s[4]
  /\ attempts' = s[5] /\ lastError' = s[6] /\ whoisData' = s[7] /\ result' = s[8]
  /\ thrown' = s[9] /\ record' = s[10] /\ nSessions' = s[11] /\ nRdap' = s[12]
  /\ nWaits' = s[13] /\ timer' = s[14] /\ rejected' = s[15] /\ nFailed' = s[16]
  /\ net' = s[17] /\ heard' = s[18]

\* the running call awaits (or is over) and the event loop runs call c
Switch(c) ==
  /\ c \in DOMAIN suspended
  /\ pc \in SuspendPoints
  /\ active' = c
  /\ suspended' = [d \in (DOMAIN suspended \ {c}) \cup {active} |->
                     IF d = active THEN queryVars ELSE suspended[d]]
  /\ Resume(suspended[c])
  /\ UNCHANGED << socketVars, parseVars, batchVars >>

ConcurrentNext ==
  \/ \E c \in CallIds : Switch(c)
  \/ Validate
  \/ LoopTest
  \/ \E text \in Texts("aware") : SessionResponds(text)
  \/ \E err \in SessionErrors(getWhoisServer) : SessionFails(err)
  \/ Catch
  \/ RetryWait
  \/ RateLimitWait
  \/ \E rdapData \in RdapJsons : RdapFallbackSucceeds(rdapData)
  \/ \E err \in RdapErrors : RdapFallbackFails(err)
  \/ \E rdapData \in RdapJsons : RdapRescueSucceeds(rdapData)
  \/ \E err \in RdapErrors : RdapRescueFails(err)

ConcurrentSpec == ConcurrentInit /\ [][ConcurrentNext]_vars

(***************************************************************************)
(* queryWhoisServer: one socket session, event by event.  A chunk is a     *)
(* sequence of bytes; the text accumulated is a sequence of characters.    *)
(***************************************************************************)
\* the chunks a server sends: the second ends and the third begins inside
\* the two-byte encoding of one character
Chunks == { <<"a">>, <<"b", "C3">>, <<"A9", "c">> }

\* data.toString(): UTF-8 decoding of one chunk on its own; a lead byte
\* without its continuation and a continuation byte without its lead each
\* become the replacement character
RECURSIVE toString(_)
toString(bytes) ==
  IF bytes = <<>> THEN <<>>
  ELSE IF Head(bytes) = "C3"
  THEN IF Len(bytes) >= 2 /\ bytes[2] = "A9"
       THEN <<"e-acute">> \o toString(Tail(Tail(bytes)))
       ELSE <<"U+FFFD">> \o toString(Tail(bytes))
  ELSE IF Head(bytes) = "A9"
  THEN <<"U+FFFD">> \o toString(Tail(bytes))
  ELSE <<Head(bytes)>> \o toString(Tail(bytes))

\* err.message of the error events of a socket
SocketErrorMessages == {"ECONNREFUSED", "ECONNRESET"}

\* the socket can emit the error: a connection is refused while it is asked
\* for and reset once it is there
CanFail(message) ==
  /\ ~IsNull(client)
  /\ IF message = "ECONNREFUSED" THEN client[1].state = "connecting"
     ELSE client[1].state \in {"open", "ended"}

\* Settle letting a later resolve or reject replace the outcome
Settle_LastWins(p, outcome) == outcome

\* resolve and reject of a promise: only a pending promise is settled
Settle(p, outcome) == IF p.state = "pending" THEN outcome ELSE p

\* the socket still emits events
Alive == ~IsNull(client) /\ client[1].state \in {"connecting", "open", "ended"}

SocketInit ==
  /\ variant = "aware"
  /\ domain \in {Str(d) : d \in ValidDomainStrings}
  /\ options \in {EmptyObject, [timeout |-> 100]}
  /\ pc = "session"
  /\ attempts = 0
  /\ lastError = Null
  /\ whoisData = Null
  /\ result = Null
  /\ thrown = Null
  /\ record = Null
  /\ nSessions = 0
  /\ nRdap = 0
  /\ nWaits = 0
  /\ timer = Null
  /\ rejected = Null
  /\ nFailed = 0
  /\ net = "none"
  /\ heard = Null
  /\ args \in [ domain : {domain.v}, server : {getWhoisServer, ReferralHost},
                 timeout : {timeout} ]
  /\ client = Null
  /\ received = <<>>
  /\ promise = [state |-> "none"]
  /\ log = <<>>
  /\ Solo
  /\ NoBatch
  /\ NoParse

\* QueryWhoisServer writing the query before the connection is established
QueryWhoisServer_WritesAtOnce ==
  /\ IsNull(client)
  /\ client' = Some([ state |-> "connecting",
                      timeout |-> args.timeout,
                      connects |-> << [port |-> WhoisPort, host |-> args.server] >>,
                      written |-> << args.domain \o <<"\r\n">> >> ])
  /\ received' = <<>>
  /\ promise' = [state |-> "pending"]
  /\ UNCHANGED << args, log >>
  /\ UNCHANGED << queryVars, callVars, parseVars, batchVars >>

\* the executor of the promise: the socket is created, its inactivity
\* timeout set, the connection asked for and the listeners registered
QueryWhoisServer ==
  /\ IsNull(client)
  /\ client' = Some([ state |-> "connecting",
                      timeout |-> args.timeout,
                      connects |-> << [port |-> WhoisPort, host |-> args.server] >>,
                      written |-> <<>> ])
  /\ received' = <<>>
  /\ promise' = [state |-> "pending"]
  /\ UNCHANGED << args, log >>
  /\ UNCHANGED << queryVars, callVars, parseVars, batchVars >>

\* the connect callback: client.write(`${domain}\r\n`)
OnConnect ==
  /\ ~IsNull(client) /\ client[1].state = "connecting"
  /\ client' = Some([ client[1] EXCEPT !.state = "open",
                                       !.written = Append(@, args.domain \o <<"\r\n">>) ])
  /\ log' = Append(log, [ev |-> "connect"])
  /\ UNCHANGED << args, received, promise >>
  /\ UNCHANGED << queryVars, callVars, parseVars, batchVars >>

\* OnData keeping the latest chunk only
OnData_KeepsLatest(data) ==
  /\ ~IsNull(client) /\ client[1].state = "open"
  /\ Cardinality({i \in 1..Len(log) : log[i].ev = "data"}) < MaxChunks
  /\ received' = toString(data)
  /\ log' = Append(log, [ev |-> "data", data |-> data])
  /\ UNCHANGED << args, client, promise >>
  /\ UNCHANGED << queryVars, callVars, parseVars, batchVars >>

\* client.on("data"): whoisData += data.toString()
OnData(data) ==
  /\ ~IsNull(client) /\ client[1].state = "open"
  /\ Cardinality({i \in 1..Len(log) : log[i].ev = "data"}) < MaxChunks
  /\ received' = received \o toString(data)
  /\ log' = Append(log, [ev |-> "data", data |-> data])
  /\ UNCHANGED << args, client, promise >>
  /\ UNCHANGED << queryVars, callVars, parseVars, batchVars >>

\* client.on("end"): resolve(whoisData)
OnEnd ==
  /\ ~IsNull(client) /\ client[1].state = "open"
  /\ client' = Some([client[1] EXCEPT !.state = "ended"])
  /\ promise' = Settle(promise, [state |-> "resolved", value |-> received])
  /\ log' = Append(log, [ev |-> "end"])
  /\ UNCHANGED << args, received >>
  /\ UNCHANGED << queryVars, callVars, parseVars, batchVars >>

\* OnTimeout handing over what has arrived so far
OnTimeout_ResolvesPartial ==
  /\ Alive
  /\ client' = Some([client[1] EXCEPT !.state = "destroyed"])
  /\ promise' = Settle(promise, [state |-> "resolved", value |-> received])
  /\ log' = Append(log, [ev |-> "timeout"])
  /\ UNCHANGED << args, received >>
  /\ UNCHANGED << queryVars, callVars, parseVars, batchVars >>

\* client.on("timeout"): client.destroy(); reject(new Error(...))
OnTimeout ==
  /\ Alive
  /\ client' = Some([client[1] EXCEPT !.state = "destroyed"])
  /\ promise' = Settle(promise, [state |-> "rejected", reason |-> TimeoutError(args.server)])
  /\ log' = Append(log, [ev |-> "timeout"])
  /\ UNCHANGED << args, received >>
  /\ UNCHANGED << queryVars, callVars, parseVars, batchVars >>

\* OnError handing over what has arrived so far, if anything has
OnError_ResolvesPartial(message) ==
  /\ CanFail(message)
  /\ client' = Some([client[1] EXCEPT !.state = "destroyed"])
  /\ promise' = Settle(promise,
                       IF received # <<>>
                       THEN [state |-> "resolved", value |-> received]
                       ELSE [ state |-> "rejected",
                              reason |-> ConnectionError(args.server, message) ])
  /\ log' = Append(log, [ev |-> "error", message |-> message])
  /\ UNCHANGED << args, received >>
  /\ UNCHANGED << queryVars, callVars, parseVars, batchVars >>

\* client.on("error"): reject(new Error(...)); the socket that emits an
\* error is destroyed by the runtime
OnError(message) ==
  /\ CanFail(message)
  /\ client' = Some([client[1] EXCEPT !.state = "destroyed"])
  /\ promise' = Settle(promise, [ state |-> "rejected",
                                  reason |-> ConnectionError(args.server, message) ])
  /\ log' = Append(log, [ev |-> "error", message |-> message])
  /\ UNCHANGED << args, received >>
  /\ UNCHANGED << queryVars, callVars, parseVars, batchVars >>

\* the socket is closed for good: no listener is registered for it
OnClose ==
  /\ ~IsNull(client) /\ client[1].state \in {"ended", "destroyed"}
  /\ client' = Some([client[1] EXCEPT !.state = "closed"])
  /\ log' = Append(log, [ev |-> "close"])
  /\ UNCHANGED << args, received, promise >>
  /\ UNCHANGED << queryVars, callVars, parseVars, batchVars >>

SocketNext ==
  \/ QueryWhoisServer
  \/ OnConnect
  \/ \E data \in Chunks : OnData(data)
  \/ OnEnd
  \/ OnTimeout
  \/ \E message \in SocketErrorMessages : OnError(message)
  \/ OnClose

SocketSpec == SocketInit /\ [][SocketNext]_vars

(***************************************************************************)
(* The extraction module called on its own.                                *)
(***************************************************************************)
\* a text is at hand and no function of the module has been called
ParseInit ==
  /\ variant = "aware"
  /\ domain = PlainDomain
  /\ options = EmptyObject
  /\ pc = "start"
  /\ attempts = 0
  /\ lastError = Null
  /\ whoisData = Null
  /\ result = Null
  /\ thrown = Null
  /\ record = Null
  /\ nSessions = 0
  /\ nRdap = 0
  /\ nWaits = 0
  /\ timer = Null
  /\ rejected = Null
  /\ nFailed = 0
  /\ net = "none"
  /\ heard = Null
  /\ NoSocket
  /\ Solo
  /\ NoBatch
  /\ input \in ParseTexts
  /\ output = Null
  /\ table = PatternTable
  /\ calls = <<>>

\* extractWhoisData(input) returns
ExtractWhoisData ==
  /\ output' = Some([fn |-> "extractWhoisData", value |-> extractWhoisData(input)])
  /\ UNCHANGED << input, table, calls >>
  /\ UNCHANGED << queryVars, socketVars, callVars, batchVars >>

\* extractAllFields(input) returns
ExtractAllFields ==
  /\ output' = Some([fn |-> "extractAllFields", value |-> extractAllFields(input)])
  /\ UNCHANGED << input, table, calls >>
  /\ UNCHANGED << queryVars, socketVars, callVars, batchVars >>

ParseNext ==
  \/ ExtractWhoisData
  \/ ExtractAllFields

ParseSpec == ParseInit /\ [][ParseNext]_vars

(***************************************************************************)
(* The extraction module called several times in a row.                    *)
(***************************************************************************)
CallsInit ==
  /\ variant = "aware"
  /\ domain = PlainDomain
  /\ options = EmptyObject
  /\ pc = "start"
  /\ attempts = 0
  /\ lastError = Null
  /\ whoisData = Null
  /\ result = Null
  /\ thrown = Null
  /\ record = Null
  /\ nSessions = 0
  /\ nRdap = 0
  /\ nWaits = 0
  /\ timer = Null
  /\ rejected = Null
  /\ nFailed = 0
  /\ net = "none"
  /\ heard = Null
  /\ NoSocket
  /\ Solo
  /\ NoBatch
  /\ NoParse

\* a call that returns value: the argument and the value are noted
Returns(fn, text, value) ==
  /\ Len(calls) < MaxCalls
  /\ input' = text
  /\ output' = Some([fn |-> fn, value |-> value])
  /\ calls' = Append(calls, [fn |-> fn, text |-> text, value |-> value])

\* extractWhoisData(text): whoisData.match(pattern) with a pattern that is
\* neither global nor sticky searches from the start of the text and leaves
\* the lastIndex of the pattern as it is
CallExtractWhoisData(text) ==
  /\ \A field \in CoreFields : table[field].flags \cap {"g", "y"} = {}
  /\ Returns("extractWhoisData", text, extractWhoisData(text))
  /\ table' = table
  /\ UNCHANGED << queryVars, socketVars, callVars, batchVars >>

\* CallExtractAllFields searching with the pattern of the table itself, made
\* global: the search leaves its lastIndex behind the last match
CallExtractAllFields_SharedPattern(text) ==
  /\ Returns("extractAllFields", text, extractAllFields(text))
  /\ table' = [ field \in DOMAIN table |->
                  [ table[field] EXCEPT !.flags = @ \cup {"g"},
                                        !.lastIndex = Len(matchAll(text, field)) ] ]
  /\ UNCHANGED << queryVars, socketVars, callVars, batchVars >>

\* extractAllFields(text): each search is made with a new RegExp built from
\* the source and the flags of the pattern, whose lastIndex is 0; the
\* pattern of the table is only read
CallExtractAllFields(text) ==
  /\ Returns("extractAllFields", text, extractAllFields(text))
  /\ table' = table
  /\ UNCHANGED << queryVars, socketVars, callVars, batchVars >>

CallsNext ==
  \/ \E text \in CallTexts : CallExtractWhoisData(text)
  \/ \E text \in CallTexts : CallExtractAllFields(text)

CallsSpec == CallsInit /\ [][CallsNext]_vars

(***************************************************************************)
(* normalizeDate of dist/cjs/whois-regex.js called on its own.             *)
(***************************************************************************)
DateInit ==
  /\ variant = "aware"
  /\ domain = PlainDomain
  /\ options = EmptyObject
  /\ pc = "start"
  /\ attempts = 0
  /\ lastError = Null
  /\ whoisData = Null
  /\ result = Null
  /\ thrown = Null
  /\ record = Null
  /\ nSessions = 0
  /\ nRdap = 0
  /\ nWaits = 0
  /\ timer = Null
  /\ rejected = Null
  /\ nFailed = 0
  /\ net = "none"
  /\ heard = Null
  /\ NoSocket
  /\ Solo
  /\ NoBatch
  /\ input \in [dateStr : DateStrings, zone : Zones]
  /\ output = Null
  /\ table = PatternTable
  /\ calls = <<>>

\* normalizeDate(input.dateStr) returns
NormalizeDate ==
  /\ output' = Some([fn |-> "normalizeDate",
                     value |-> normalizeDateCjs(input.dateStr, input.zone),
                     expanded |-> IF IsIsoInstant(input.dateStr) THEN <<>>
                                  ELSE Expansions(stripTimezone(input.dateStr), 1)])
  /\ UNCHANGED << input, table, calls >>
  /\ UNCHANGED << queryVars, socketVars, callVars, batchVars >>

DateNext == NormalizeDate

DateSpec == DateInit /\ [][DateNext]_vars

(***************************************************************************)
(* parseRdapData called on its own.                                        *)
(***************************************************************************)
RdapInit ==
  /\ variant = "aware"
  /\ domain = PlainDomain
  /\ options = EmptyObject
  /\ pc = "start"
  /\ attempts = 0
  /\ lastError = Null
  /\ whoisData = Null
  /\ result = Null
  /\ thrown = Null
  /\ record = Null
  /\ nSessions = 0
  /\ nRdap = 0
  /\ nWaits = 0
  /\ timer = Null
  /\ rejected = Null
  /\ nFailed = 0
  /\ net = "none"
  /\ heard = Null
  /\ NoSocket
  /\ Solo
  /\ NoBatch
  /\ input \in RdapValues
  /\ output = Null
  /\ table = PatternTable
  /\ calls = <<>>

\* parseRdapData(input) returns or throws
ParseRdapData ==
  /\ output' = Some([ fn |-> "parseRdapData",
                      threw |-> parseRdapValue(input).threw,
                      value |-> parseRdapValue(input).value ])
  /\ UNCHANGED << input, table, calls >>
  /\ UNCHANGED << queryVars, socketVars, callVars, batchVars >>

RdapNext == ParseRdapData

RdapSpec == RdapInit /\ [][RdapNext]_vars

(***************************************************************************)
(* The batch script: processAllDomains and processDomain.                  *)
(***************************************************************************)
\* the first of the sixteen domains of the list
DomainList == << "bzat.com", "qhnu.com", "dztu.com", "giyc.com" >>

\* async function processDomain(domain, retries = 2)
DefaultRetries == 2

\* the texts queryWhois resolves with
BatchTexts == { <<>>, << FieldLine("Registrar", <<"RESERVED-IANA">>) >> }

\* the messages of the errors queryWhois rejects with
BatchErrors ==
  { WrapLookupError(TimeoutError(getWhoisServer)),
    WrapLookupError(ConnectionError(getWhoisServer, "ECONNRESET")) }

\* basicInfo[key] || null
BasicOrNull(basicInfo, key) ==
  IF key \in DOMAIN basicInfo /\ ~IsNull(basicInfo[key]) /\ basicInfo[key][1] # <<>>
  THEN basicInfo[key] ELSE Null

\* fullInfo[key] || null
FullOrNull(fullInfo, key) ==
  IF key \in DOMAIN fullInfo THEN Some(fullInfo[key]) ELSE Null

\* the result of the try block of processDomain
SuccessRecord(d, text) ==
  LET basicInfo == extractWhoisData(text)
      fullInfo == extractAllFields(text)
  IN  [ domain |-> d,
        registrar |-> BasicOrNull(basicInfo, "registrar"),
        creation_date |-> BasicOrNull(basicInfo, "creation_date"),
        expiration_date |-> BasicOrNull(basicInfo, "expiration_date"),
        updated_date |-> BasicOrNull(basicInfo, "updated_date"),
        name_servers |-> FullOrNull(fullInfo, "name_servers"),
        status |-> FullOrNull(fullInfo, "status"),
        raw_data |-> text ]

\* what the catch block of processDomain returns when no retry is left
FailureRecord(d, message) == [domain |-> d, error |-> message, status |-> "failed"]

\* CatchBranch rethrowing the error when no retry is left
CatchBranch_Rethrows(r) == IF r > 0 THEN "retry" ELSE "throw"

\* the catch block of processDomain: if (retries > 0) ... else ...
CatchBranch(r) == IF r > 0 THEN "retry" ELSE "return"

\* the script starts: processAllDomains is called with the list
BatchInit ==
  /\ variant = "unaware"
  /\ domain = PlainDomain
  /\ options = EmptyObject
  /\ pc = "start"
  /\ attempts = 0
  /\ lastError = Null
  /\ whoisData = Null
  /\ result = Null
  /\ thrown = Null
  /\ record = Null
  /\ nSessions = 0
  /\ nRdap = 0
  /\ nWaits = 0
  /\ timer = Null
  /\ rejected = Null
  /\ nFailed = 0
  /\ net = "none"
  /\ heard = Null
  /\ NoSocket
  /\ active = 1
  /\ suspended = <<>>
  /\ NoParse
  /\ domains \in { SubSeq(DomainList, 1, n) : n \in 0..MaxDomains }
  /\ results = <<>>
  /\ index = 0
  /\ retries = 0
  /\ failure = Null
  /\ at = "for"
  /\ journal = <<>>

\* for (const domain of domains): the next domain is handed to
\* processDomain, which starts with its default number of retries and calls
\* queryWhois; after the last domain the final results are saved
ForOf ==
  /\ at = "for"
  /\ IF index < Len(domains)
     THEN /\ index' = index + 1
          /\ retries' = DefaultRetries
          /\ journal' = Append(journal, [ev |-> "processDomain", domain |-> domains[index + 1]])
          /\ at' = "queryWhois"
     ELSE /\ at' = "final"
          /\ UNCHANGED << index, retries, journal >>
  /\ failure' = Null
  /\ UNCHANGED << domains, results >>
  /\ UNCHANGED << queryVars, socketVars, callVars, parseVars >>

\* processDomain returns: results.push(result), then the pause
ProcessDomainReturns(res) ==
  /\ results' = Append(results, res)
  /\ at' = "pause"

\* queryWhois resolves: the try block builds the result and returns it
QueryWhoisResolves(text) ==
  /\ at = "queryWhois"
  /\ journal' = Append(journal, [ ev |-> "queryWhois", domain |-> domains[index],
                                  ok |-> TRUE, message |-> <<>> ])
  /\ ProcessDomainReturns(SuccessRecord(domains[index], text))
  /\ UNCHANGED << domains, index, retries, failure >>
  /\ UNCHANGED << queryVars, socketVars, callVars, parseVars >>

\* queryWhois rejects: the catch block starts the wait before the retry,
\* or returns the failure record; an error it threw would leave
\* processDomain and processAllDomains rejected
QueryWhoisRejects(message) ==
  /\ at = "queryWhois"
  /\ journal' = Append(journal, [ ev |-> "queryWhois", domain |-> domains[index],
                                  ok |-> FALSE, message |-> message ])
  /\ failure' = Some(message)
  /\ CASE CatchBranch(retries) = "retry" -> at' = "retryTimer" /\ results' = results
       [] CatchBranch(retries) = "return" ->
            ProcessDomainReturns(FailureRecord(domains[index], message))
       [] OTHER -> at' = "rejected" /\ results' = results
  /\ UNCHANGED << domains, index, retries >>
  /\ UNCHANGED << queryVars, socketVars, callVars, parseVars >>

\* the three seconds are over: return processDomain(domain, retries - 1)
RetryTimer ==
  /\ at = "retryTimer"
  /\ journal' = Append(journal, [ev |-> "setTimeout", ms |-> 3000])
  /\ retries' = retries - 1
  /\ at' = "queryWhois"
  /\ UNCHANGED << domains, results, index, failure >>
  /\ UNCHANGED << queryVars, socketVars, callVars, parseVars >>

\* the two seconds between two domains are over
Pause ==
  /\ at = "pause"
  /\ journal' = Append(journal, [ev |-> "setTimeout", ms |-> 2000])
  /\ at' = "writeFile"
  /\ UNCHANGED << domains, results, index, retries, failure >>
  /\ UNCHANGED << queryVars, socketVars, callVars, parseVars >>

\* the intermediate results are written, or the write fails and the error
\* is logged: the loop goes on either way
WriteFile ==
  /\ at = "writeFile"
  /\ journal' = Append(journal, [ev |-> "writeFile", saved |-> Len(results)])
  /\ at' = "for"
  /\ UNCHANGED << domains, results, index, retries, failure >>
  /\ UNCHANGED << queryVars, socketVars, callVars, parseVars >>

\* the final results and the summary are written, or the error is logged
FinalWrite ==
  /\ at = "final"
  /\ journal' = Append(journal, [ev |-> "writeFile", saved |-> Len(results)])
  /\ at' = "end"
  /\ UNCHANGED << domains, results, index, retries, failure >>
  /\ UNCHANGED << queryVars, socketVars, callVars, parseVars >>

BatchNext ==
  \/ ForOf
  \/ \E text \in BatchTexts : QueryWhoisResolves(text)
  \/ \E message \in BatchErrors : QueryWhoisRejects(message)
  \/ RetryTimer
  \/ Pause
  \/ WriteFile
  \/ FinalWrite

BatchSpec == BatchInit /\ [][BatchNext]_vars

(***************************************************************************)
(* Properties.                                                             *)
(***************************************************************************)
\* the positions of the dots of a string
DotPositions(s) == {i \in 1..Len(s) : s[i] = "."}

\* the characters after the last dot of a string that has one
LastLabel(s) ==
  LET last == CHOOSE i \in DotPositions(s) : \A j \in DotPositions(s) : j <= i
  IN  SubSeq(s, last + 1, Len(s))

\* a domain argument that is not a non-empty string, has fewer than two
\* dot-separated labels, or whose last label is not 'com' in any casing
BadDomain(d) ==
  \/ d.t # "string"
  \/ d.v = <<>>
  \/ DotPositions(d.v) = {}
  \/ LastLabel(d.v) \notin { <<c, o, m>> : c \in {"c", "C"}, o \in {"o", "O"}, m \in {"m", "M"} }

ValidationMessages ==
  { <<"Domain name is required and must be a string">>,
    <<"Invalid domain format">>,
    <<"This library only supports .com domains">> }

HasRateNotice(text) == \E i \in 1..Len(text) : text[i].kind = "rate"

\* the waits, in seconds, that the rate-limit notices of a text declare
NoticeSeconds(text) == { text[i].n : i \in {j \in 1..Len(text) : text[j].kind = "rate"} }

HasDeprecation(text) == \E i \in 1..Len(text) : text[i].kind = "dep"

\* a step in which a session with the authoritative server delivers a text
SessionDelivers == pc = "session" /\ net' = "whois-ok" /\ nSessions' = nSessions + 1

\* the text that step delivers: kept as whoisData when the call goes on,
\* and the raw text of the record when the call returns it
DeliveredText == IF whoisData' # Null THEN whoisData'[1] ELSE record'[1].raw

\* a step in which the RDAP fetch made for a WHOIS response fails
FallbackFails == pc = "rdapFallback" /\ net' = "rdap-fail"

\* C2: in the RDAP-aware orchestrator with useRdapOnRateLimit, a response
\* that carries a rate-limit or a deprecation notice is followed at once by
\* an RDAP fetch, with no wait and no session in between, and a successful
\* fetch returns with protocol rdap
C2_RdapRightAfterNotice ==
  [][ /\ ( /\ variant = "aware" /\ useRdapOnRateLimit
           /\ SessionDelivers
           /\ HasRateNotice(DeliveredText) \/ HasDeprecation(DeliveredText) )
         => pc' = "rdapFallback" /\ timer' = Null
      /\ pc = "rdapFallback"
         => /\ nRdap' = nRdap + 1 /\ nSessions' = nSessions /\ nWaits' = nWaits
            /\ net' = "rdap-ok" => pc' = "done" /\ record'[1].protocol = "rdap"
    ]_vars

\* the part of C2 that the code keeps: the same for a response whose
\* deprecation notice, or whose rate-limit notices all of one second or more,
\* call for the fetch
C2_PositiveNotice ==
  [][ /\ ( /\ variant = "aware" /\ useRdapOnRateLimit
           /\ SessionDelivers
           /\ \/ HasDeprecation(DeliveredText)
              \/ HasRateNotice(DeliveredText) /\ 0 \notin NoticeSeconds(DeliveredText) )
         => pc' = "rdapFallback" /\ timer' = Null
      /\ pc = "rdapFallback"
         => /\ nRdap' = nRdap + 1 /\ nSessions' = nSessions /\ nWaits' = nWaits
            /\ net' = "rdap-ok" => pc' = "done" /\ record'[1].protocol = "rdap"
    ]_vars

\* C3: a response with a rate-limit notice, with handleRateLimit, RDAP
\* disabled or just failed, and another attempt left after this one, starts a
\* wait of the declared seconds times 1000; when the wait is over the attempt
\* count is one more and the authoritative server is queried again
C3_WaitsDeclaredSeconds ==
  [][ /\ ( /\ handleRateLimit /\ attempts < retryCount - 1
           /\ \/ SessionDelivers /\ ~useRdapOnRateLimit /\ HasRateNotice(DeliveredText)
              \/ FallbackFails /\ HasRateNotice(whoisData[1]) )
         => /\ pc' = "rateWait"
            /\ timer' \in { Some(n * 1000) : n \in NoticeSeconds(whoisData'[1]) }
      /\ pc = "rateWait"
         => /\ attempts' = attempts + 1 /\ attempts' < retryCount
            /\ nWaits' = nWaits + 1 /\ pc' = "loop"
      /\ pc = "loop" /\ attempts < retryCount => pc' = "session"
    ]_vars

\* the part of C3 that the code keeps: the same for notices that all declare
\* a second or more
C3_PositiveNotice ==
  [][ /\ ( /\ handleRateLimit /\ attempts < retryCount - 1
           /\ \/ /\ SessionDelivers /\ ~useRdapOnRateLimit
                 /\ HasRateNotice(DeliveredText) /\ 0 \notin NoticeSeconds(DeliveredText)
              \/ /\ FallbackFails
                 /\ HasRateNotice(whoisData[1]) /\ 0 \notin NoticeSeconds(whoisData[1]) )
         => /\ pc' = "rateWait"
            /\ timer' \in { Some(n * 1000) : n \in NoticeSeconds(whoisData'[1]) }
      /\ pc = "rateWait"
         => /\ attempts' = attempts + 1 /\ attempts' < retryCount
            /\ nWaits' = nWaits + 1 /\ pc' = "loop"
      /\ pc = "loop" /\ attempts < retryCount => pc' = "session"
    ]_vars

\* a step in which a session, with either server, ends in a rejection
SessionRejects == net' = "whois-fail" /\ nSessions' = nSessions + 1

\* C4: a transport failure of a session adds exactly one to the attempt
\* count; with attempts left the fixed retryDelay is waited and the server is
\* queried again, and after the failure that uses up the last attempt there
\* is no wait
C4_FixedDelayBetweenAttempts ==
  [][ /\ SessionRejects => pc' = "catch" /\ attempts' = attempts /\ nWaits' = nWaits
      /\ pc = "catch"
         => /\ attempts' = attempts + 1 /\ nWaits' = nWaits
            /\ IF attempts' < retryCount
               THEN pc' = "retryWait" /\ timer' = Some(retryDelay)
               ELSE pc' = "loop" /\ timer' = Null
      /\ pc = "retryWait"
         => /\ attempts' = attempts /\ attempts < retryCount
            /\ nWaits' = nWaits + 1 /\ pc' = "loop"
      /\ pc = "loop"
         => /\ nWaits' = nWaits /\ attempts' = attempts
            /\ IF attempts < retryCount THEN pc' = "session"
               ELSE pc' \in {"rdapRescue", "failed"}
    ]_vars

C4_Witness ==
  /\ pc = "retryWait" /\ net = "whois-fail"
  /\ retryCount = 2 /\ attempts = 1
  /\ timer = Some(250) /\ nWaits = 0

\* every attempt of the call has ended in a transport failure
AllAttemptsFailed == retryCount >= 1 /\ nFailed = retryCount

\* C5: once every attempt has ended in a transport failure, with
\* useRdapOnRateLimit exactly one RDAP fetch is made and its success is
\* returned with protocol rdap; without it, or when that fetch fails, the
\* call fails with the wrapped message of the most recent transport error
C5_RescueOrLastError ==
  AllAttemptsFailed =>
    /\ pc \notin {"rdapFallback", "rateWait", "refSession"}
    /\ useRdapOnRateLimit
       => /\ nRdap <= 1
          /\ pc \in {"done", "failed"} => nRdap = 1
          /\ pc = "done" => net = "rdap-ok" /\ record[1].protocol = "rdap"
          /\ pc = "failed" => net = "rdap-fail"
    /\ ~useRdapOnRateLimit => nRdap = 0 /\ pc # "done"
    /\ pc = "failed" => thrown = Some(WrapLookupError(rejected[1]))

C5_Witness ==
  /\ pc = "failed" /\ useRdapOnRateLimit
  /\ retryCount = 2 /\ nFailed = 2 /\ nRdap = 1
  /\ rejected = Some(TimeoutError(getWhoisServer))
  /\ thrown = Some(WrapLookupError(TimeoutError(getWhoisServer)))

\* C6: when every session fails, the call opens retryCount + 1 sessions,
\* the first query and retryCount retries, before it gives up
C6_RetryCountRetries ==
  ( /\ pc \in {"rdapRescue", "done", "failed"}
    /\ nSessions >= 1 /\ nFailed = nSessions )
    => nSessions = retryCount + 1

\* what the code does instead: retryCount sessions in all
C6_RetryCountSessions ==
  ( /\ pc \in {"rdapRescue", "done", "failed"}
    /\ nSessions >= 1 /\ nFailed = nSessions )
    => nSessions = retryCount

\* C7: an error other than a validation error reaches the caller only when
\* every attempt has been used and, with useRdapOnRateLimit, the RDAP rescue
\* has failed too
C7_OnlyFinalFailureSurfaces ==
  [][ (IsNull(thrown) /\ ~IsNull(thrown') /\ ~BadDomain(domain))
        => /\ attempts = retryCount /\ attempts' = attempts
           /\ IF useRdapOnRateLimit
              THEN pc = "rdapRescue" /\ net' = "rdap-fail" /\ nRdap' = nRdap + 1
              ELSE pc = "loop" /\ nRdap' = nRdap
    ]_vars

C7_Witness ==
  /\ pc = "failed" /\ ~BadDomain(domain)
  /\ useRdapOnRateLimit /\ net = "rdap-fail"
  /\ retryCount = 2 /\ attempts = 2 /\ nFailed = 2
  /\ ~IsNull(thrown)

\* C8: in the RDAP-aware build a returned record names the protocol that
\* produced its data, and a record from a successful RDAP fallback carries
\* the flags of the WHOIS response that caused the fallback: rate_limited
\* and the declared seconds for a rate-limit notice, rdap_recommended for a
\* deprecation notice
C8_FlagsSurviveFallback ==
  [][ (variant = "aware" /\ pc # "done" /\ pc' = "done")
        => /\ record'[1].protocol = (IF net' = "rdap-ok" THEN "rdap" ELSE "whois")
           /\ (pc = "rdapFallback" /\ net' = "rdap-ok")
              => /\ HasRateNotice(whoisData[1])
                    => /\ record'[1].rate_limited = TRUE
                       /\ record'[1].rate_limit_seconds \in NoticeSeconds(whoisData[1])
                 /\ HasDeprecation(whoisData[1]) => record'[1].rdap_recommended = TRUE
    ]_vars

\* the part of C8 that the code keeps: the protocol, and rdap_recommended
\* on every record from RDAP
C8_ProtocolAndRecommendation ==
  [][ (variant = "aware" /\ pc # "done" /\ pc' = "done")
        => /\ record'[1].protocol = (IF net' = "rdap-ok" THEN "rdap" ELSE "whois")
           /\ net' = "rdap-ok" => record'[1].rdap_recommended = TRUE
    ]_vars

\* the keys of the canonical record
CanonicalKeys ==
  { "domain_name", "registrar", "creation_date", "expiration_date", "updated_date",
    "name_servers", "status", "raw", "protocol",
    "rate_limited", "rate_limit_seconds", "rdap_recommended", "rdap_url" }

\* the keys whois() itself adds in both builds
FlagKeys == {"raw", "rate_limited", "rate_limit_seconds", "rdap_recommended", "rdap_url"}

\* a value that is an ordered sequence
IsArray(x) == DOMAIN x = 1..Len(x)

C10_ManualRateLimit ==
  [][ ( /\ variant = "aware" /\ ~handleRateLimit /\ ~useRdapOnRateLimit
        /\ nSessions = 0 /\ SessionDelivers
        /\ HasRateNotice(DeliveredText) )
        => /\ pc' = "done"
           /\ nSessions' = 1 /\ nWaits' = 0 /\ nRdap' = 0
           /\ record'[1].rate_limited = TRUE
           /\ record'[1].rate_limit_seconds \in NoticeSeconds(DeliveredText)
    ]_vars

\* the part of C10 that the code keeps: the same for notices that all
\* declare a second or more
C10_PositiveNotice ==
  [][ ( /\ variant = "aware" /\ ~handleRateLimit /\ ~useRdapOnRateLimit
        /\ nSessions = 0 /\ SessionDelivers
        /\ HasRateNotice(DeliveredText) /\ 0 \notin NoticeSeconds(DeliveredText) )
        => /\ pc' = "done"
           /\ nSessions' = 1 /\ nWaits' = 0 /\ nRdap' = 0
           /\ record'[1].rate_limited = TRUE
           /\ record'[1].rate_limit_seconds \in NoticeSeconds(DeliveredText)
    ]_vars

ReferralFields(text) ==
  {i \in 1..Len(text) : text[i].kind = "field" /\ text[i].label = "Registrar WHOIS Server"}

\* the text has such a field that names another host than the authoritative
\* server and no URL
NamesOtherHost(text) ==
  \E i \in ReferralFields(text) :
    text[i].val # <<"whois.verisign-grs.com">> /\ text[i].val[1] # "http"

\* the value of the first such field of a text that has one
FirstReferral(text) ==
  text[CHOOSE i \in ReferralFields(text) : \A j \in ReferralFields(text) : i <= j].val

\* the first such field names another host than the authoritative server
\* and no URL
FirstNamesOtherHost(text) ==
  /\ ReferralFields(text) # {}
  /\ FirstReferral(text) # <<"whois.verisign-grs.com">>
  /\ FirstReferral(text)[1] # "http"

Events(kind) == {i \in 1..Len(log) : log[i].ev = kind}

\* the texts of the chunks of a log, one after the other in their order
RECURSIVE TextOf(_)
TextOf(l) ==
  IF l = <<>> THEN <<>>
  ELSE (IF Head(l).ev = "data" THEN toString(Head(l).data) ELSE <<>>) \o TextOf(Tail(l))

\* an event of the kind has happened and the peer had not closed the stream
\* before it
BeforePeerClose(kind) ==
  \E i \in Events(kind) : \A j \in Events("end") : i < j

\* C13: once the inactivity timeout has expired before the peer closed the
\* stream, the socket is destroyed and the session has failed with the
\* timeout error that names the server, with or without data received
C13_TimeoutIsFailure ==
  BeforePeerClose("timeout")
    => /\ client[1].state \in {"destroyed", "closed"}
       /\ promise = [ state |-> "rejected",
                      reason |-> <<"Connection to">> \o args.server \o <<"timed out">> ]

C13_Witness ==
  /\ log = << [ev |-> "connect"], [ev |-> "data", data |-> <<"a">>], [ev |-> "timeout"] >>
  /\ received = <<"a">>
  /\ promise.state = "rejected"
  /\ args.server = ReferralHost

\* C14: a session has succeeded only if the peer has closed the stream, and
\* its result is then the texts of all the chunks received, each once, in
\* the order of arrival
C14_ResultIsAllChunksInOrder ==
  promise.state = "resolved"
    => /\ Events("end") # {}
       /\ promise.value = TextOf(log)

C14_Witness ==
  /\ promise.state = "resolved"
  /\ Events("data") = {2, 3}
  /\ log[2].data = <<"b", "C3">> /\ log[3].data = <<"A9", "c">>
  /\ promise.value = <<"b", "U+FFFD", "U+FFFD", "c">>

\* C15: a call asks for one connection, to port 43 of the server, writes the
\* query line once, after the connect event and not before, and connects
\* and writes no more whatever happens to the session
C15_OneConnectionOneQuery ==
  ~IsNull(client)
    => /\ client[1].connects = << [port |-> 43, host |-> args.server] >>
       /\ client[1].written = IF Events("connect") = {} THEN <<>>
                              ELSE << args.domain \o <<"\r\n">> >>

C15_Witness ==
  /\ ~IsNull(client) /\ client[1].state = "closed"
  /\ log = << [ev |-> "connect"], [ev |-> "error", message |-> "ECONNRESET"], [ev |-> "close"] >>
  /\ Len(client[1].connects) = 1 /\ Len(client[1].written) = 1
  /\ args.domain = <<"a", ".", "C", "o", "M">>

\* C16: once the socket has emitted an error, the session has failed with
\* the connection error that names the server and carries the message, and
\* nothing that was received is returned
C16_AnyErrorIsFailure ==
  \A i \in Events("error") :
    promise = [ state |-> "rejected",
                reason |-> <<"Error querying">> \o args.server \o <<":", log[i].message>> ]

\* C16 as the code has it: an error emitted before the peer has closed the
\* stream fails the session in that way; an error emitted after the peer
\* has closed the stream leaves the session succeeded with its text
C16_ErrorBeforeCloseIsFailure ==
  \A i \in Events("error") :
    IF \A j \in Events("end") : i < j
    THEN promise = [ state |-> "rejected",
                     reason |-> <<"Error querying">> \o args.server \o <<":", log[i].message>> ]
    ELSE promise = [state |-> "resolved", value |-> TextOf(log)]

C16_Witness ==
  /\ log = << [ev |-> "connect"], [ev |-> "data", data |-> <<"a">>],
              [ev |-> "error", message |-> "ECONNRESET"] >>
  /\ received = <<"a">>
  /\ promise.state = "rejected"

NetworkPositions == {"session", "refSession", "rdapFallback", "rdapRescue"}

\* the step settles the operation under way: a session closes, times out or
\* fails, or a fetch comes back
Settles ==
  /\ nSessions' + nRdap' = nSessions + nRdap + 1
  /\ net' \in {"whois-ok", "whois-fail", "rdap-ok", "rdap-fail"}

\* C18: a call is at one position at a time, so at most one network
\* operation is under way; the step that starts an operation either starts
\* from a position where none is under way or is the step that settles the
\* one under way, and an operation under way ends only by settling
C18_OneOperationAtATime ==
  [][ /\ (pc' \in NetworkPositions /\ pc' # pc)
         => pc \notin NetworkPositions \/ Settles
      /\ (pc \in NetworkPositions /\ pc' # pc) => Settles
      /\ pc \notin NetworkPositions
         => nSessions' = nSessions /\ nRdap' = nRdap /\ net' = net
    ]_vars

C18_Witness ==
  /\ variant = "unaware" /\ pc = "refSession"
  /\ nSessions = 1 /\ nRdap = 0 /\ net = "whois-ok"

(***************************************************************************)
(* The extraction functions, read off the text and the value returned.     *)
(***************************************************************************)
Returned(fn) == ~IsNull(output) /\ output[1].fn = fn

\* the lines of a text in which the pattern of a field matches
MatchingLines(text, field) ==
  {i \in 1..Len(text) : text[i].kind = "field" /\ text[i].label \in WHOIS_PATTERNS[field]}

\* what the pattern of a field captures on a line, trimmed: one token for
\* the domain name, the rest of the line for any other field
Captured(line, field) ==
  IF field = "domain_name" THEN SubSeq(line.val, 1, 1) ELSE line.val

\* the k-th smallest of a set of line numbers
Nth(indices, k) ==
  CHOOSE i \in indices : Cardinality({j \in indices : j <= i}) = k

\* the captures of all the matches of a field's pattern, in document order
CapturesInOrder(text, field) ==
  [ k \in 1..Cardinality(MatchingLines(text, field)) |->
      Captured(text[Nth(MatchingLines(text, field), k)], field) ]

\* the first match of a field's pattern, a date normalized
FirstCapture(text, field) ==
  LET first == CapturesInOrder(text, field)[1]
  IN  IF field \in DateFields THEN normalizeDate(first) ELSE first

\* the five keys hold the first match of their pattern, or null
FiveFirstMatches(text, value) ==
  /\ DOMAIN value = {"domain_name", "registrar", "creation_date", "expiration_date",
                     "updated_date"}
  /\ \A field \in DOMAIN value :
       value[field] = IF MatchingLines(text, field) = {} THEN Null
                      ELSE Some(FirstCapture(text, field))

\* C19 as stated: for every text, the empty one included, extractWhoisData
\* returns a record of exactly the five core keys, each holding the first
\* match of its pattern (a date normalized) or null
C19_FiveKeysForEveryText ==
  Returned("extractWhoisData") => FiveFirstMatches(input, output[1].value)

\* C19: for every text that is not empty extractWhoisData returns a record
\* of exactly the five core keys, each holding the first match of its
\* pattern (a date normalized) or null; for the empty text it returns the
\* object without keys
C19_FiveKeysUnlessEmpty ==
  Returned("extractWhoisData")
    => IF input = <<>> THEN DOMAIN output[1].value = {}
       ELSE FiveFirstMatches(input, output[1].value)

C19_Witness ==
  /\ Returned("extractWhoisData")
  /\ input = << FieldLine("Domain Name", <<"OTHER.COM", "(reserved)">>),
                FieldLine("Domain Name", <<"EXAMPLE.COM">>),
                FieldLine("Creation Date", DateOnly) >>
  /\ output[1].value.domain_name = Some(<<"OTHER.COM">>)
  /\ output[1].value.registrar = Null
  /\ Len(output[1].value.creation_date[1]) = 24

\* C20: in the value extractAllFields returns, the name servers and the
\* status are the sequence of all the matches of their pattern in document
\* order, duplicates kept, when the pattern matches more than once; every
\* other field of the pattern table holds its first match only
C20_MultiValuedFields ==
  Returned("extractAllFields")
    => \A field \in DOMAIN WHOIS_PATTERNS :
         LET n == Cardinality(MatchingLines(input, field))
         IN  /\ (field \in {"name_servers", "status"} /\ n > 1)
                  => output[1].value[field] = Arr(CapturesInOrder(input, field))
             /\ (field \notin {"name_servers", "status"} /\ n >= 1)
                  => output[1].value[field] = Str(FirstCapture(input, field))

C20_Witness ==
  /\ Returned("extractAllFields")
  /\ input = << FieldLine("Domain Status", <<"clientHold">>),
                FieldLine("Domain Status", <<"clientDeleteProhibited">>),
                FieldLine("Domain Status", <<"clientHold">>) >>
  /\ output[1].value.status =
       Arr(<< <<"clientHold">>, <<"clientDeleteProhibited">>, <<"clientHold">> >>)

\* a pattern of the table captures the content of the line
CapturedByNamedPattern(line) ==
  /\ line.kind = "field"
  /\ \E field \in DOMAIN WHOIS_PATTERNS : line.label \in WHOIS_PATTERNS[field]

\* the keys of a returned value that are not field names of the table
ResidualKeys(value) == DOMAIN value \ DOMAIN WHOIS_PATTERNS

\* C21: every residual key of the value extractAllFields returns is the
\* lower-cased, underscore-joined label of a "key: value" line whose content
\* no pattern of the table captured; a line a pattern captured, a comment
\* line and a blank line add no key
C21_ResidualKeysOfUncapturedLines ==
  Returned("extractAllFields")
    => \A key \in ResidualKeys(output[1].value) :
         \E i \in 1..Len(input) :
           /\ input[i].kind = "field"
           /\ ~CapturedByNamedPattern(input[i])
           /\ cleanKey(input[i].label) = key

\* the part of C21 that holds: every residual key is the key of a
\* "key: value" line with a value, so comment and blank lines add nothing
C21_ResidualKeysOfFieldLines ==
  Returned("extractAllFields")
    => \A key \in ResidualKeys(output[1].value) :
         \E i \in 1..Len(input) :
           /\ input[i].kind = "field"
           /\ input[i].val # <<>>
           /\ cleanKey(input[i].label) = key

IsInstantOf(s, y, m, d) ==
  /\ Len(s) = 24
  /\ SubSeq(s, 1, 10) = y \o <<"-">> \o m \o <<"-">> \o d
  /\ s[11] = "T" /\ s[14] = ":" /\ s[17] = ":" /\ s[20] = "." /\ s[24] = "Z"
  /\ \A i \in {12, 13, 15, 16, 18, 19, 21, 22, 23} : s[i] \in Digits

\* C23: a date written in one of the six supported layouts comes back as an
\* ISO-8601 instant of the year, month and day written
C23_StructuralDatesKeepTheirDigits ==
  Returned("normalizeDate")
    => \A l \in Layouts, y \in Years, m \in Months, d \in Days :
         input.dateStr = Written(l, y, m, d)
           => IsInstantOf(output[1].value, y, m, d)

\* the part of C23 that holds: a date written year first comes back as an
\* instant of the year, month and day written
C23_YearFirstDates ==
  Returned("normalizeDate")
    => \A l \in {"YYYY-MM-DD", "YYYY.MM.DD", "YYYY/MM/DD"}, y \in Years, m \in Months,
          d \in Days :
         input.dateStr = Written(l, y, m, d)
           => IsInstantOf(output[1].value, y, m, d)

\* neither a structural format nor the date parse makes a date of the string
Unparseable(s) == ~IsIsoInstant(s) /\ IsNull(FormatDate(s, 1)) /\ IsNull(NewDate(s))

\* C24: a string that no structural format and no date parse accepts comes
\* back as it was passed, character for character, a time zone token at its
\* end included
C24_UnparseableComesBackUnchanged ==
  (Returned("normalizeDate") /\ Unparseable(input.dateStr))
    => output[1].value = input.dateStr

\* the part of C24 that holds: a string that nothing parses and that holds
\* no time zone token after a blank comes back as it was passed
C24_UnparseableWithoutToken ==
  ( /\ Returned("normalizeDate")
    /\ Unparseable(input.dateStr)
    /\ \A i \in 1..Len(input.dateStr) : input.dateStr[i] \notin TimezoneTokens )
    => output[1].value = input.dateStr

(***************************************************************************)
(* parseRdapData, read off the JSON value passed and what came back.       *)
(***************************************************************************)
\* the value of a key of the JSON object passed, undefined when missing
Source(key) == Member(input, key)

IsListOfStrings(x) == x.t = "array" /\ \A i \in 1..Len(x.items) : x.items[i].t = "string"

IsString(x) == x.t = "string"

IsObject(x) == x.t = "object"

\* an entity with its roles as a list and, if it has a vCard, a list of
\* entries that are lists
IsEntity(x) ==
  /\ IsObject(x)
  /\ "roles" \in DOMAIN x.props => IsListOfStrings(x.props.roles)
  /\ "vcardArray" \in DOMAIN x.props
       => /\ x.props.vcardArray.t = "array" /\ Len(x.props.vcardArray.items) = 2
          /\ x.props.vcardArray.items[2].t = "array"
          /\ \A i \in 1..Len(x.props.vcardArray.items[2].items) :
               x.props.vcardArray.items[2].items[i].t = "array"

IsEvent(x) ==
  /\ IsObject(x)
  /\ {"eventAction", "eventDate"} \subseteq DOMAIN x.props
  /\ IsString(x.props.eventAction) /\ IsString(x.props.eventDate)

IsNameserver(x) == IsObject(x) /\ "ldhName" \in DOMAIN x.props /\ IsString(x.props.ldhName)

\* the key is there and has the shape an RDAP document gives it
Expected(key) ==
  LET x == Source(key)
  IN  CASE key = "ldhName" -> IsString(x)
        [] key = "entities" -> x.t = "array" /\ \A i \in 1..Len(x.items) : IsEntity(x.items[i])
        [] key = "events" -> x.t = "array" /\ \A i \in 1..Len(x.items) : IsEvent(x.items[i])
        [] key = "nameservers" -> x.t = "array" /\ \A i \in 1..Len(x.items) : IsNameserver(x.items[i])
        [] key = "status" -> IsListOfStrings(x)

\* the fields of the result that are taken from a key of the document
FieldsOf(key) ==
  CASE key = "ldhName" -> {"domain_name"}
    [] key = "entities" -> {"registrar"}
    [] key = "events" -> {"creation_date", "expiration_date", "updated_date"}
    [] key = "nameservers" -> {"name_servers"}
    [] key = "status" -> {"status"}

RdapKeys == {"ldhName", "entities", "events", "nameservers", "status"}

\* C25: whatever is missing from the JSON object or has another shape than
\* expected, parseRdapData returns, and the fields of the result taken from
\* a key that is missing or of another shape are null
C25_MismatchLeavesNull ==
  (Returned("parseRdapData") /\ input.t = "object")
    => /\ ~output[1].threw
       /\ \A key \in RdapKeys :
            ~Expected(key) => \A field \in FieldsOf(key) : output[1].value[field].t = "null"

\* the part of C25 that holds: when every key is missing or of the expected
\* shape, parseRdapData returns, the five core fields taken from a missing
\* key are null, and the name servers and the status taken from a missing
\* key are the empty list
C25_MissingKeys ==
  ( /\ Returned("parseRdapData") /\ input.t = "object"
    /\ \A key \in RdapKeys : key \in DOMAIN input.props => Expected(key) )
    => /\ ~output[1].threw
       /\ \A key \in RdapKeys \ DOMAIN input.props :
            \A field \in FieldsOf(key) :
              IF field \in {"name_servers", "status"}
              THEN output[1].value[field].t = "array" /\ output[1].value[field].items = <<>>
              ELSE output[1].value[field].t = "null"

(***************************************************************************)
(* When the RDAP-aware queryWhois turns to RDAP.                           *)
(***************************************************************************)
\* a text with neither a rate-limit nor a deprecation notice
NoSignal(text) == ~HasRateNotice(text) /\ ~HasDeprecation(text)

\* C26: in the RDAP-aware orchestrator an RDAP fetch is started only by the
\* delivery of a response with a rate-limit or a deprecation notice, or by
\* the loop test once the attempts are used up, and each start is one fetch;
\* a response with neither notice is returned in the step that delivers it,
\* as it came, with protocol whois, rate_limited and rdap_recommended false,
\* and with no RDAP fetch and no wait
C26_RdapOnlyOnSignalOrExhaustion ==
  [][ variant = "aware"
        => /\ (pc' = "rdapFallback" /\ pc # "rdapFallback")
              => /\ SessionDelivers
                 /\ HasRateNotice(whoisData'[1]) \/ HasDeprecation(whoisData'[1])
           /\ (pc' = "rdapRescue" /\ pc # "rdapRescue")
              => pc = "loop" /\ attempts >= retryCount
           /\ nRdap' # nRdap
              => nRdap' = nRdap + 1 /\ pc \in {"rdapFallback", "rdapRescue"} /\ pc' # pc
           /\ (SessionDelivers /\ NoSignal(DeliveredText))
              => /\ pc' = "done"
                 /\ nRdap' = nRdap /\ nWaits' = nWaits /\ timer' = Null
                 /\ result'[1].protocol = "whois" /\ result'[1].data = DeliveredText
                 /\ record'[1].protocol = "whois"
                 /\ record'[1].rate_limited = FALSE
                 /\ record'[1].rdap_recommended = FALSE
    ]_vars

\* a call with every option on has returned the one response it got, which
\* carried no notice, without an RDAP fetch or a wait
C26_Witness ==
  /\ variant = "aware" /\ useRdapOnRateLimit /\ handleRateLimit
  /\ pc = "done" /\ nSessions = 1 /\ nRdap = 0 /\ nWaits = 0
  /\ ~IsNull(heard) /\ heard[1] # <<>> /\ NoSignal(heard[1])
  /\ record[1].protocol = "whois"
  /\ ~record[1].rate_limited /\ ~record[1].rdap_recommended

\* what the RDAP-aware queryWhois returns for a WHOIS response
ReturnsResponse(text) ==
  /\ pc' = "done"
  /\ result' = Some([data |-> text, protocol |-> "whois", raw |-> text])
  /\ record'[1].protocol = "whois" /\ record'[1].raw = text

\* C27: a failure of the RDAP fetch made for a response with a notice is not
\* thrown and leaves the attempt count and lastError as they were; the call
\* goes on with the same response: with a rate-limit notice, handleRateLimit
\* and another attempt left after this one it starts the wait, otherwise it
\* returns the response with protocol whois
C27_FallThroughToWhoisHandling ==
  [][ FallbackFails
        => /\ attempts' = attempts /\ lastError' = lastError
           /\ thrown' = thrown /\ pc' # "failed"
           /\ nSessions' = nSessions
           /\ IF HasRateNotice(whoisData[1]) /\ handleRateLimit /\ attempts < retryCount - 1
              THEN pc' = "rateWait" /\ whoisData' = whoisData
              ELSE ReturnsResponse(whoisData[1])
    ]_vars

\* the part of C27 that the code keeps: the same for a response whose
\* rate-limit notices, if any, all declare a second or more
C27_PositiveNotice ==
  [][ (FallbackFails /\ 0 \notin NoticeSeconds(whoisData[1]))
        => /\ attempts' = attempts /\ lastError' = lastError
           /\ thrown' = thrown /\ pc' # "failed"
           /\ nSessions' = nSessions
           /\ IF HasRateNotice(whoisData[1]) /\ handleRateLimit /\ attempts < retryCount - 1
              THEN /\ pc' = "rateWait" /\ whoisData' = whoisData
                   /\ timer' \in { Some(n * 1000) : n \in NoticeSeconds(whoisData[1]) }
              ELSE ReturnsResponse(whoisData[1])
    ]_vars

\* a step of the RDAP-aware queryWhois that leaves it with a response for
\* which RDAP is disabled or has just failed
LeftWithResponse ==
  /\ variant = "aware"
  /\ (SessionDelivers /\ ~useRdapOnRateLimit) \/ FallbackFails

\* the response of that step
ResponseText == IF FallbackFails THEN whoisData[1] ELSE DeliveredText

\* C28: a response with a rate-limit notice never makes the call fail; when
\* RDAP is disabled or has just failed and there is no wait to make (no
\* attempt left after this one, or handleRateLimit false), the response is
\* returned and its record has rate_limited true, whatever number of
\* sessions failed before
C28_RateLimitedResponseIsSuccess ==
  [][ (LeftWithResponse /\ HasRateNotice(ResponseText))
        => /\ pc' # "failed" /\ thrown' = Null
           /\ (~handleRateLimit \/ attempts >= retryCount - 1)
                => /\ ReturnsResponse(ResponseText)
                   /\ record'[1].rate_limited = TRUE
    ]_vars

\* the part of C28 that the code keeps: the same for notices that all
\* declare a second or more
C28_PositiveNotice ==
  [][ ( /\ LeftWithResponse
        /\ HasRateNotice(ResponseText) /\ 0 \notin NoticeSeconds(ResponseText) )
        => /\ pc' # "failed" /\ thrown' = Null
           /\ (~handleRateLimit \/ attempts >= retryCount - 1)
                => /\ ReturnsResponse(ResponseText)
                   /\ record'[1].rate_limited = TRUE
                   /\ record'[1].rate_limit_seconds \in NoticeSeconds(ResponseText)
    ]_vars

\* a rate-limited response was returned as a success after a session of the
\* same call had failed
C28_AfterTransportError ==
  /\ variant = "aware" /\ pc = "done" /\ nFailed >= 1
  /\ record[1].protocol = "whois" /\ record[1].rate_limited

Settled == pc \in {"done", "failed"}

\* the positions of a pass of the retry loop before its outcome is known
InPass == pc \in {"session", "rdapFallback", "refSession"}

\* C30: in both variants, when every session, RDAP fetch and wait settles,
\* the call returns or throws; a pass of the retry loop starts with the
\* attempt count as it is, keeps it while the session, the RDAP fetch or the
\* referral session is under way, and either returns or comes back to the
\* loop test through exactly one of the two increments: the catch block
\* (with or without the retry delay) or the rate-limit wait
C30_EveryCallSettles ==
  /\ <>Settled
  /\ [][ /\ pc = "loop" => attempts' = attempts /\ pc' \in {"session", "rdapRescue", "failed"}
         /\ pc = "loop" /\ pc' = "session" => attempts < retryCount
         /\ InPass => /\ attempts' = attempts
                      /\ pc' \in {"rdapFallback", "refSession", "rateWait", "catch", "done"}
         /\ pc = "catch" => attempts' = attempts + 1 /\ pc' \in {"retryWait", "loop"}
         /\ pc = "retryWait" => attempts' = attempts /\ pc' = "loop"
         /\ pc = "rateWait" => attempts' = attempts + 1 /\ pc' = "loop"
         /\ pc = "rdapRescue" => attempts' = attempts /\ Settled'
         /\ attempts' <= retryCount
     ]_vars

\* a call of the RDAP-unaware variant has returned a response after a
\* rate-limit wait and a failed session
C30_Witness ==
  /\ variant = "unaware" /\ pc = "done"
  /\ attempts = 2 /\ nFailed = 1 /\ nWaits = 2 /\ nSessions = 3

(***************************************************************************)
(* The RDAP-aware queryWhois with the RDAP fallback switched off.          *)
(***************************************************************************)
\* the caller passed useRdapOnRateLimit: false
RdapSwitchedOff ==
  /\ variant = "aware"
  /\ "useRdapOnRateLimit" \in DOMAIN options
  /\ ~options.useRdapOnRateLimit

\* C31: with useRdapOnRateLimit false the call never makes an RDAP fetch and
\* never waits for one, whatever the sessions deliver, and a record it
\* returns has protocol whois
C31_NoRdapWhenSwitchedOff ==
  RdapSwitchedOff
    => /\ nRdap = 0
       /\ pc \notin {"rdapFallback", "rdapRescue"}
       /\ net \notin {"rdap-ok", "rdap-fail"}
       /\ pc = "done" => record[1].protocol = "whois" /\ result[1].protocol = "whois"

\* a call with the fallback switched off has returned a response with a
\* notice, after a failed session
C31_Witness ==
  /\ RdapSwitchedOff /\ pc = "done" /\ nFailed >= 1
  /\ HasRateNotice(record[1].raw) \/ HasDeprecation(record[1].raw)
  /\ record[1].protocol = "whois"

\* the same call has used up its attempts and failed without a fetch
C31_ExhaustedWithoutFetch ==
  RdapSwitchedOff /\ pc = "failed" /\ retryCount >= 1 /\ nFailed = retryCount /\ nRdap = 0

C32_RateLimitedRecord ==
  pc = "done" /\ record[1].rate_limited /\ record[1].rate_limit_seconds = 1

(***************************************************************************)
(* A response with a deprecation notice and no rate-limit notice.          *)
(***************************************************************************)
DeprecationOnly(text) == HasDeprecation(text) /\ ~HasRateNotice(text)

\* the record of the step has the protocol
HasProtocol(p) == "protocol" \in DOMAIN record'[1] /\ record'[1].protocol = p

\* C33: in both variants a response with a deprecation notice and no
\* rate-limit notice starts no wait and no further session: either an RDAP
\* fetch follows and, when it succeeds, is returned, or the response is
\* returned at once with protocol whois and rdap_recommended true
C33_DeprecationNeverRequeries ==
  [][ /\ (SessionDelivers /\ DeprecationOnly(heard'[1]))
           => /\ nWaits' = nWaits /\ timer' = Null
              /\ pc' \in {"rdapFallback", "done"}
              /\ pc' = "done"
                   => /\ record'[1].raw = heard'[1]
                      /\ HasProtocol("whois") /\ record'[1].rdap_recommended
      /\ (pc = "rdapFallback" /\ DeprecationOnly(whoisData[1]))
           => /\ pc' = "done" /\ nWaits' = nWaits /\ nSessions' = nSessions
              /\ IF net' = "rdap-ok" THEN HasProtocol("rdap")
                 ELSE /\ record'[1].raw = whoisData[1]
                      /\ HasProtocol("whois") /\ record'[1].rdap_recommended
    ]_vars

\* C33 as the code has it: such a response starts no wait.  In the
\* RDAP-aware variant an RDAP fetch follows when useRdapOnRateLimit is set,
\* and its result is returned when it succeeds; otherwise the response is
\* returned with protocol whois and rdap_recommended true.  In the
\* RDAP-unaware variant the response is returned with rdap_recommended true
\* and without a protocol, unless follow is set and its first referral field
\* names another host: then the session with that host follows
C33_DeprecationByVariant ==
  [][ /\ (SessionDelivers /\ DeprecationOnly(heard'[1]))
           => /\ nWaits' = nWaits /\ timer' = Null
              /\ IF variant = "aware"
                 THEN IF useRdapOnRateLimit
                      THEN pc' = "rdapFallback" /\ whoisData' = heard'
                      ELSE /\ ReturnsResponse(heard'[1])
                           /\ record'[1].rdap_recommended
                 ELSE IF follow /\ FirstNamesOtherHost(heard'[1])
                      THEN pc' = "refSession" /\ result' = Null
                      ELSE /\ pc' = "done" /\ record'[1].raw = heard'[1]
                           /\ "protocol" \notin DOMAIN record'[1]
                           /\ record'[1].rdap_recommended
      /\ (pc = "rdapFallback" /\ DeprecationOnly(whoisData[1]))
           => /\ pc' = "done" /\ nWaits' = nWaits /\ nSessions' = nSessions
              /\ IF net' = "rdap-ok" THEN HasProtocol("rdap")
                 ELSE /\ ReturnsResponse(whoisData[1])
                      /\ record'[1].rdap_recommended
    ]_vars

\* the RDAP fetch made for such a response failed and the response was
\* returned after the one session
C33_Witness ==
  /\ variant = "aware" /\ pc = "done" /\ net = "rdap-fail"
  /\ nSessions = 1 /\ nWaits = 0 /\ nRdap = 1
  /\ DeprecationOnly(record[1].raw)
  /\ record[1].protocol = "whois" /\ record[1].rdap_recommended

\* in the RDAP-unaware variant such a response was followed to the host it
\* names
C33_FollowedReferral ==
  /\ variant = "unaware" /\ pc = "refSession"
  /\ DeprecationOnly(whoisData[1]) /\ nWaits = 0

(***************************************************************************)
(* How the retry loop of queryWhois ends without a return.                 *)
(***************************************************************************)
\* the loop test has failed or is about to: the attempts are used up
LoopEnded ==
  /\ pc \in {"loop", "rdapRescue", "done", "failed"}
  /\ IsNull(ValidationError(domain))
  /\ attempts >= retryCount

\* the call has failed with the generic message
GenericFailure == pc = "failed" /\ thrown = Some(WrapLookupError(MaxAttemptsError))

\* C34: when the loop has ended without a return and retryCount is one or
\* more, lastError holds the error of the last failed session, so the call
\* does not fail with 'Maximum retry attempts reached'; that failure needs a
\* retryCount of 0, and then no session is opened, and with
\* useRdapOnRateLimit the one RDAP fetch is made before the call fails
C34_GenericFailureOnlyWithoutAttempts ==
  /\ (LoopEnded /\ retryCount >= 1)
       => /\ nFailed >= 1 /\ lastError = rejected /\ ~IsNull(lastError)
          /\ ~GenericFailure
          /\ pc = "failed" => thrown = Some(WrapLookupError(lastError[1]))
  /\ GenericFailure => retryCount = 0
  /\ (LoopEnded /\ retryCount = 0)
       => /\ nSessions = 0 /\ IsNull(lastError)
          /\ pc = "failed" => GenericFailure
          /\ (useRdapOnRateLimit /\ pc \in {"done", "failed"}) => nRdap = 1
          /\ ~useRdapOnRateLimit => nRdap = 0 /\ pc # "done"

\* a call with retryCount 0 has failed with the generic message after its
\* RDAP fetch failed, without a session
C34_Witness ==
  /\ retryCount = 0 /\ useRdapOnRateLimit
  /\ GenericFailure /\ nSessions = 0 /\ nRdap = 1 /\ net = "rdap-fail"

\* a call with retryCount 2 has ended its loop after a rate-limit wait and a
\* failed session
C34_LoopEndedAfterWait ==
  /\ retryCount = 2 /\ LoopEnded /\ pc = "failed" /\ nFailed = 1 /\ nSessions = 2
  /\ thrown = Some(WrapLookupError(rejected[1]))

(***************************************************************************)
(* The one outcome of a socket session.                                    *)
(***************************************************************************)
\* the positions of the events that call resolve or reject
SettlingEvents == Events("end") \cup Events("timeout") \cup Events("error")

\* the first of these events
FirstSettling == CHOOSE i \in SettlingEvents : \A j \in SettlingEvents : i <= j

\* what the first of these events makes of the session
OutcomeOfFirst ==
  LET i == FirstSettling
  IN  IF log[i].ev = "end"
      THEN [state |-> "resolved", value |-> TextOf(SubSeq(log, 1, i))]
      ELSE IF log[i].ev = "timeout"
      THEN [ state |-> "rejected",
             reason |-> <<"Connection to">> \o args.server \o <<"timed out">> ]
      ELSE [ state |-> "rejected",
             reason |-> <<"Error querying">> \o args.server \o <<":", log[i].message>> ]

\* C35: a socket session has one outcome: as long as the peer has not closed
\* the stream, the timeout has not expired and no error was emitted, the
\* session is pending; the first of these events fixes the outcome, and no
\* step after it (a timeout or an error after the peer closed, the teardown
\* of the socket) changes the outcome
C35_SettlesOnceByFirstEvent ==
  [][ /\ promise.state \in {"resolved", "rejected"} => promise' = promise
      /\ ~IsNull(client') =>
           IF SettlingEvents' = {} THEN promise'.state = "pending"
           ELSE promise' = OutcomeOfFirst' ]_vars

\* the peer closed the stream and the timeout expired afterwards: the
\* session stays resolved with the text
C35_Witness ==
  /\ log = << [ev |-> "connect"], [ev |-> "data", data |-> <<"a">>],
              [ev |-> "end"], [ev |-> "timeout"] >>
  /\ promise = [state |-> "resolved", value |-> <<"a">>]

\* the timeout expired, the socket was torn down and closed: the session
\* stays rejected with the timeout error
C35_ClosedAfterTimeout ==
  /\ log = << [ev |-> "connect"], [ev |-> "timeout"], [ev |-> "close"] >>
  /\ promise.state = "rejected"
  /\ client[1].state = "closed"

(***************************************************************************)
(* The sessions of one call of the RDAP-unaware variant.                   *)
(***************************************************************************)
\* C36: in the RDAP-unaware variant, the session with the referral server
\* is the last of its attempt: its response is returned as it is, a referral
\* field in it included, and its failure goes to the catch block, which
\* counts one attempt and leads back to a session with the authoritative
\* server or ends the call; one call opens at most 2 * retryCount sessions
C36_OneReferralHopPerAttempt ==
  [][ variant = "unaware"
        => /\ (pc = "refSession" /\ nSessions' # nSessions)
              => \/ /\ pc' = "done"
                    /\ result' = Some([data |-> heard'[1]])
                    /\ attempts' = attempts
                 \/ /\ pc' = "catch"
                    /\ nFailed' = nFailed + 1
                    /\ attempts' = attempts
           /\ pc = "catch" => attempts' = attempts + 1
           /\ pc' = "refSession" => pc = "session"
           /\ pc' = "session" => pc = "loop" /\ attempts < retryCount
           /\ nSessions' <= 2 * (attempts' + 1)
           /\ nSessions' <= 2 * retryCount ]_vars

\* two attempts, each with a referral session that failed: four sessions
C36_Witness ==
  /\ variant = "unaware" /\ retryCount = 2
  /\ nSessions = 4 /\ nFailed = 2 /\ attempts = 2
  /\ pc = "failed"

\* the referral server answered with a referral field of its own, which is
\* returned and not followed
C36_ReferralInReferralReturned ==
  /\ variant = "unaware" /\ pc = "done" /\ nSessions = 2
  /\ heard # Null /\ NamesOtherHost(heard[1])
  /\ result = Some([data |-> heard[1]])

(***************************************************************************)
(* normalizeDate: the two-digit years it expands.                          *)
(***************************************************************************)
\* the date of the layout, year, month and day is what was passed, alone or
\* followed by a time zone token
Passed(l, y, m, d) ==
  input.dateStr \in {Written(l, y, m, d), Written(l, y, m, d) \o <<" ", "UTC">>}

\* C37: what normalizeDate expands as a two-digit year becomes 20xx when it
\* is below 30 and 19xx otherwise, and its two digits are the last two
\* digits of the year of the date passed
C37_ExpandsTheYearWritten ==
  Returned("normalizeDate")
    => \A i \in 1..Len(output[1].expanded) :
         LET x == output[1].expanded[i]
         IN  /\ x.fullYear = (IF parseInt(x.year) < 30 THEN <<"2", "0">> ELSE <<"1", "9">>)
                               \o x.year
             /\ \A l \in Layouts, y \in Years, m \in Months \cup {<<"1", "2">>},
                   d \in Days \cup {<<"3", "1">>} :
                  Passed(l, y, m, d) => x.year = SubSeq(y, 3, 4)

\* the part of C37 that holds: the two digits become 20xx below 30 and 19xx
\* otherwise; they are the first group of a date written day first, the day,
\* and a date written year first has nothing expanded
C37_ExpandsTheFirstGroup ==
  Returned("normalizeDate")
    => /\ \A i \in 1..Len(output[1].expanded) :
            LET x == output[1].expanded[i]
            IN  /\ x.fullYear = (IF parseInt(x.year) < 30 THEN <<"2", "0">> ELSE <<"1", "9">>)
                                  \o x.year
                /\ x.year = SubSeq(input.dateStr, 1, 2)
       /\ \A l \in Layouts, y \in Years, m \in Months \cup {<<"1", "2">>},
             d \in Days \cup {<<"3", "1">>} :
            Passed(l, y, m, d)
              => IF l \in {"YYYY-MM-DD", "YYYY.MM.DD", "YYYY/MM/DD"}
                 THEN output[1].expanded = <<>>
                 ELSE /\ output[1].expanded # <<>>
                      /\ \A i \in 1..Len(output[1].expanded) : output[1].expanded[i].year = d

\* the day 14 of 14.08.1995 was expanded to the year 2014
C37_DayExpandedAsYear ==
  /\ Returned("normalizeDate")
  /\ input.dateStr = <<"1", "4", ".", "0", "8", ".", "1", "9", "9", "5">>
  /\ output[1].expanded = << [year |-> <<"1", "4">>, fullYear |-> <<"2", "0", "1", "4">>] >>

\* the day 31 of 31/12/2024 was expanded to the year 1931
C37_DayExpandedTo19xx ==
  /\ Returned("normalizeDate")
  /\ input.dateStr = <<"3", "1", "/", "1", "2", "/", "2", "0", "2", "4">>
  /\ \E i \in 1..Len(output[1].expanded) :
       output[1].expanded[i].fullYear = <<"1", "9", "3", "1">>

(***************************************************************************)
(* parseRdapData: what it takes from a document and in which order.        *)
(***************************************************************************)
\* every key of the document passed that parseRdapData reads has the shape
\* an RDAP document gives it
WellFormed ==
  input.t = "object" /\ \A key \in RdapKeys : key \in DOMAIN input.props => Expected(key)

\* the items of a key of the document, none when the key is missing
ItemsOf(key) == IF key \in DOMAIN input.props THEN input.props[key].items ELSE <<>>

\* the vCard entries of an entity
EntriesOf(entity) ==
  IF "vcardArray" \in DOMAIN entity.props THEN entity.props.vcardArray.items[2].items ELSE <<>>

\* the numbers of the 'fn' entries among the vCard entries of an entity
FnEntries(entity) ==
  { j \in 1..Len(EntriesOf(entity)) : IsStr(EntriesOf(entity)[j].items[1], <<"fn">>) }

\* the numbers of the entities with the role 'registrar' and an 'fn' entry
NamedRegistrars ==
  { i \in 1..Len(ItemsOf("entities")) :
      LET entity == ItemsOf("entities")[i]
      IN  /\ "roles" \in DOMAIN entity.props
          /\ \E r \in 1..Len(entity.props.roles.items) :
               IsStr(entity.props.roles.items[r], <<"registrar">>)
          /\ FnEntries(entity) # {} }

\* the numbers of the events with one of the actions and a date
EventsWith(actions) ==
  { i \in 1..Len(ItemsOf("events")) :
      /\ \E a \in actions : IsStr(ItemsOf("events")[i].props.eventAction, <<a>>)
      /\ ItemsOf("events")[i].props.eventDate.v # <<>> }

\* the field of the result is the date of the last of these events, null
\* when there is none
DateIsOf(field, actions) ==
  LET hits == EventsWith(actions)
      got == output[1].value[field]
  IN  IF hits = {} THEN got.t = "null"
      ELSE LET last == CHOOSE i \in hits : \A j \in hits : j <= i
           IN  got.t = "string" /\ got.v = ItemsOf("events")[last].props.eventDate.v

\* C38: of a well-formed document parseRdapData returns as registrar the
\* value of the first 'fn' entry of the vCard of the entity with the role
\* 'registrar' (of the last such entity that has an 'fn' entry when there
\* are several), as creation_date the date of the 'registration' event, as
\* expiration_date that of the 'expiration' event, as updated_date that of
\* the 'last changed' or 'last update' event (the last in the list when
\* there are several), as name_servers the ldhName of each name server in
\* the order of the list, and as status the items of the status list in
\* their order
C38_FieldsOfAnRdapDocument ==
  (Returned("parseRdapData") /\ WellFormed)
    => /\ ~output[1].threw
       /\ LET got == output[1].value.registrar
          IN  IF NamedRegistrars = {} THEN got.t = "null"
              ELSE LET i == CHOOSE i \in NamedRegistrars : \A k \in NamedRegistrars : k <= i
                       entity == ItemsOf("entities")[i]
                       j == CHOOSE j \in FnEntries(entity) : \A k \in FnEntries(entity) : j <= k
                   IN  got.t = "string" /\ got.v = EntriesOf(entity)[j].items[4].v
       /\ DateIsOf("creation_date", {"registration"})
       /\ DateIsOf("expiration_date", {"expiration"})
       /\ DateIsOf("updated_date", {"last changed", "last update"})
       /\ LET got == output[1].value.name_servers
          IN  /\ got.t = "array"
              /\ Len(got.items) = Len(ItemsOf("nameservers"))
              /\ \A i \in 1..Len(got.items) :
                   got.items[i].v = ItemsOf("nameservers")[i].props.ldhName.v
       /\ LET got == output[1].value.status
          IN  /\ got.t = "array"
              /\ Len(got.items) = Len(ItemsOf("status"))
              /\ \A i \in 1..Len(got.items) : got.items[i].v = ItemsOf("status")[i].v

\* a registrar with two 'fn' entries after a version entry, four events out
\* of order, two name servers and two status values not in alphabetical order
C38_Witness ==
  /\ Returned("parseRdapData") /\ WellFormed
  /\ Len(ItemsOf("entities")) = 2 /\ Cardinality(FnEntries(ItemsOf("entities")[1])) = 2
  /\ output[1].value.registrar.v = <<"Example Registrar">>
  /\ Len(ItemsOf("events")) = 4
  /\ output[1].value.creation_date.v = <<"1995-08-14T04:00:00Z">>
  /\ output[1].value.expiration_date.v = <<"2025-08-13T04:00:00Z">>
  /\ output[1].value.updated_date.v = <<"2024-02-05T04:00:00Z">>
  /\ Len(output[1].value.name_servers.items) = 2
  /\ output[1].value.name_servers.items[1].v = <<"B.IANA-SERVERS.NET">>
  /\ Len(output[1].value.status.items) = 2
  /\ output[1].value.status.items[2].v = <<"active">>

\* two registrar entities and two events for the updated date: the later
\* one of each is in the result
C38_LaterOneWins ==
  /\ Returned("parseRdapData") /\ WellFormed
  /\ Cardinality(NamedRegistrars) = 2
  /\ output[1].value.registrar.v = <<"Example Registrar">>
  /\ Cardinality(EventsWith({"last changed", "last update"})) = 2
  /\ output[1].value.updated_date.v = <<"2024-12-28T04:00:00Z">>

(***************************************************************************)
(* The batch script, read off its journal and its result list.             *)
(***************************************************************************)
\* the position of the journal at which the loop called processDomain last
LastStarted(j) ==
  LET started == {i \in 1..Len(j) : j[i].ev = "processDomain"}
  IN  CHOOSE i \in started : \A k \in started : k <= i

\* the positions of the queryWhois calls made since
CallsOfCurrent(j) == {i \in 1..Len(j) : i > LastStarted(j) /\ j[i].ev = "queryWhois"}

\* the record is a failure record
IsFailure(r) == DOMAIN r = {"domain", "error", "status"}

\* C39: processDomain never rejects; it calls queryWhois at most retries + 1
\* times (3 with the default); before every call but the first three
\* seconds are waited after a failed call; a call that succeeds ends it at
\* once with the result of that call; the call that fails when no retry is
\* left ends it with the record of the domain, the message of that failure
\* and the status 'failed'.  processAllDomains starts a domain only when all
\* domains before it have their result, and result i is that of domain i
C39_BatchNeverRejectsAndKeepsOrder ==
  [][ /\ at' # "rejected"
      /\ at' \in {"queryWhois", "retryTimer", "pause"}
           => /\ Cardinality(CallsOfCurrent(journal')) <= DefaultRetries + 1
              /\ at' = "queryWhois"
                   => Cardinality(CallsOfCurrent(journal')) + retries' = DefaultRetries
      /\ \A i \in 1..Len(journal') :
           journal'[i].ev = "queryWhois"
             => \/ journal'[i - 1].ev = "processDomain"
                \/ /\ journal'[i - 1].ev = "setTimeout" /\ journal'[i - 1].ms = 3000
                   /\ journal'[i - 2].ev = "queryWhois" /\ ~journal'[i - 2].ok
                   /\ journal'[i - 2].domain = journal'[i].domain
      /\ at = "queryWhois"
           => LET call == journal'[Len(journal')]
                  last == results'[Len(results')]
              IN  /\ call.ev = "queryWhois" /\ call.domain = domains[index]
                  /\ IF call.ok
                     THEN /\ at' = "pause"
                          /\ Len(results') = Len(results) + 1
                          /\ ~IsFailure(last)
                          /\ last.domain = call.domain
                     ELSE IF Cardinality(CallsOfCurrent(journal')) = DefaultRetries + 1
                     THEN /\ at' = "pause"
                          /\ Len(results') = Len(results) + 1
                          /\ IsFailure(last)
                          /\ last.domain = call.domain
                          /\ last.error = call.message
                          /\ last.status = "failed"
                     ELSE at' = "retryTimer" /\ results' = results
      /\ at' = "queryWhois" => Len(results') = index' - 1
      /\ Len(results') <= index'
      /\ \A i \in 1..Len(results') : results'[i].domain = domains[i]
      /\ at' = "end" => Len(results') = Len(domains) ]_vars

\* the first domain failed three times, the last time with another message
\* than before, and has the failure record with the last message; the second
\* domain succeeded at its second call
C39_Witness ==
  /\ at = "end" /\ Len(domains) = 2
  /\ IsFailure(results[1]) /\ results[1].domain = "bzat.com"
  /\ results[1].error = <<"WHOIS lookup failed:", "Connection to", "whois.verisign-grs.com",
                           "timed out">>
  /\ journal[2].ev = "queryWhois" /\ journal[2].message # results[1].error
  /\ journal[6].ev = "queryWhois" /\ journal[6].message = results[1].error
  /\ ~IsFailure(results[2]) /\ results[2].domain = "qhnu.com"
  /\ results[2].registrar = Some(<<"RESERVED-IANA">>)
  /\ Cardinality({i \in 1..Len(journal) : journal[i].ev = "queryWhois"}) = 5

\* the first call for a domain succeeded: no wait but the pause
C39_FirstCallSucceeds ==
  /\ at = "pause" /\ index = 1
  /\ Len(journal) = 2 /\ journal[2].ok
  /\ ~IsFailure(results[1])

====
